---- MODULE Spec2Model ----
(***************************************************************************)
(* Model of agent-farmer's session lifecycle and workspace isolation       *)
(* engine.                                                                 *)
(*                                                                         *)
(* SpecGit models the workspace manager (session/git/worktree_git.go):     *)
(* PushChanges and RebaseOntoDefault run by concurrent callers on          *)
(* worktrees of one repository, one step per external-tool invocation.     *)
(* SpecPoll models the metadata tick of the control loop (app/app.go) over  *)
(* instances whose agents keep redrawing their screens.                    *)
(* SpecApp models the control loop's key handling: the kill key with its   *)
(* confirmation modal, the asynchronous kill action and the selection keys.*)
(***************************************************************************)
EXTENDS Integers, Sequences, FiniteSets, TLC

\* ---------------------------------------------------------------- bounds
\* Highest commit id a branch tip may reach; operations start only below it.
MaxTip == 2

\* The concurrent callers, each bound to its own worktree.
Workers == {1, 2}

\* The repositories a worktree can belong to.
Repos == {"A", "B"}

\* The instances loaded at start; the branch of instance i is branch i.
Instances == {1, 2}

\* Distinct screens without a prompt that an agent can show.
NumTexts == 2

\* A screen is one of the plain texts 1..NumTexts or screen 0, which shows the
\* interactive prompt; -1 stands for "nothing captured yet".
Screens == 0..NumTexts

VARIABLES
    \* ---- workspace manager (SpecGit)
    gitMutex,     \* 0 when free, else the worker holding the process-wide lock
    pc,           \* pc[w]: position of worker w inside its operation
    op,           \* op[w]: "none", "push" or "rebase"
    openFlag,     \* openFlag[w]: the open argument of PushChanges
    log,          \* log[w]: invocations made by the current call, in order
    result,       \* result[w]: "none" while running, "ok" or the error returned
    dirty,        \* dirty[w]: worktree has uncommitted changes
    tip,          \* tip[w]: commit id of the branch tip
    rebasing,     \* rebasing[w]: a rebase is in progress in the worktree
    cachedBranch, \* RepoConfig.DefaultBranch in <repo>/.agent-farmer/repo-config.json ("" when not cached)
    legacyBranch, \* RepoConfig.DefaultBranch in the legacy file ~/.agent-farmer/repo-<hash>.json ("": no file)
    remoteHead,   \* the HEAD branch that git remote show origin reports
    defaultBranch, \* defaultBranch[w]: the name GetDefaultBranch returned to the current call ("": none)
    known,        \* name returned by the last successful GetDefaultBranch since the last reset -f, and whether a cache record holds it
    devEnabled,   \* DevEnvironment section of the repo-local record: "nil" (none), "off" or "on" (Enabled)
    lastReset,    \* a reset succeeded and GetDefaultBranch has not run since: "plain", "force" (every
                  \* matched file removed) or "force_kept" (a removal failed and was logged); else "none"
    start,        \* start[w]: worktree state when the current call began
    inter,        \* inter[w]: "no", "between" or "interleaved" (invocation overlap monitor)
    repoPath,     \* repoPath[w]: GitWorktree.repoPath of the worktree worker w operates on (never reassigned)
    \* ---- control loop (SpecApp)
    uiState,          \* home.state: "default", "confirm" or "loading"
    items,            \* list.items: the instances in list order
    selectedIdx,      \* list.selectedIdx (0-based)
    status,           \* Instance.Status: "Running", "Ready", "Loading" or "Paused"
    autoYes,          \* Instance.AutoYes
    content,          \* screen currently visible in the instance's terminal session
    prevContent,      \* screen seen by the previous HasUpdated (-1 before the first)
    lastPoll,         \* what the last metadata tick observed and did for the instance
    persisted,        \* instances with a record in storage
    sessionAlive,     \* the instance's terminal session exists
    worktreePresent,  \* the instance's worktree exists on disk
    checkedOutBranch, \* branch checked out in the main repository (0: none of the instances')
    pendingAction,    \* home.pendingAction: 0 or the instance captured by the kill action
    running,          \* kill commands returned to the runtime and not yet executed
    msgs,             \* messages produced by commands and not yet handled by Update
    lastKill,         \* target and outcome of the last executed kill action
    confirmationOverlay, \* home.confirmationOverlay: the modal (kind "nil": no overlay) and its Dismissed flag
    loadingOverlay,   \* home.loadingOverlay: "nil" or "shown"
    pendingActionInfo, \* home.pendingActionInfo: the push or rebase action awaiting confirmation (kind "nil": none)
    runningOps,       \* push and rebase commands returned to the runtime and not yet finished
    quitConfirmed,    \* home.quitConfirmed
    quit,             \* tea.Quit has been returned: the program has left the control loop
    frame,            \* frame of the spinner
    branch,           \* the branch the instance is bound to (its name; 0: none)
    \* ---- program start and exit (SpecMain)
    mainPc,       \* position of the foreground process inside rootCmd.RunE ("idle": not started)
    isGitRepo,    \* the directory the program was started in is inside a git repository
    cfgAutoYes,   \* cfg.AutoYes of the loaded configuration
    autoYesFlag,  \* the --autoyes command line flag
    deferLaunch,  \* the deferred daemon.LaunchDaemon() has been registered
    mainResult,   \* "none", "ok" or the error returned by RunE
    fgPolling,    \* the foreground control loop is in the middle of a tick
    daemon,       \* the background daemon process: "off", "sleeping" or "polling"
    \* ---- development environment commands (SpecDevenv)
    tiltfiles,    \* tiltfiles[p]: the file at path p of the repository: "absent", "user" or "generated"
    tiltfilePath, \* DevEnvironment.TiltfilePath of the saved repository configuration
    initForce,    \* the --force flag of the last devenv init
    initResult,   \* "none", "ok" or the error the last devenv init returned
    \* ---- instance creation (SpecNew)
    listItems,        \* list.items as records: started, AutoYes and the length of the title
    homeAutoYes,      \* home.autoYes
    promptAfterName,  \* home.promptAfterName
    textInputOverlay, \* home.textInputOverlay: kind "nil" when there is none, whether it holds text, Submitted
    made,             \* how many placeholders, generated instances and kill requests there have been
    \* ---- session names (SpecName)
    genPc,        \* position inside GenerateSessionName: "idle", "loop" or "done"
    genConfig,    \* which API keys the NameGeneratorConfig holds
    genPrompt,    \* the prompt: its ticket number and its words
    attempt,      \* the loop variable attempt
    genCalls,     \* the API calls made by the current call, in order, with their outcome
    genName       \* the name returned (<<>> while running)

cfgVars == <<cachedBranch, legacyBranch, remoteHead, known, lastReset, devEnabled>>

gitVars == <<gitMutex, pc, op, openFlag, log, result, dirty, tip, rebasing, cfgVars, defaultBranch, start, inter, repoPath>>

modalVars == <<confirmationOverlay, loadingOverlay, pendingActionInfo, runningOps, quitConfirmed, quit, frame>>

appVars == <<uiState, items, selectedIdx, status, autoYes, content, prevContent, lastPoll, persisted,
             sessionAlive, worktreePresent, checkedOutBranch, pendingAction, running, msgs, lastKill, modalVars,
             branch>>

mainVars == <<mainPc, isGitRepo, cfgAutoYes, autoYesFlag, deferLaunch, mainResult, fgPolling, daemon>>

devVars == <<tiltfiles, tiltfilePath, initForce, initResult>>

newVars == <<listItems, homeAutoYes, promptAfterName, textInputOverlay, made>>

genVars == <<genPc, genConfig, genPrompt, attempt, genCalls, genName>>

vars == <<gitVars, appVars, mainVars, devVars, newVars, genVars>>

\* ------------------------------------------------------- invocation log
Entry(c, ok) == [cmd |-> c, ok |-> ok]

Has(l, c) == \E i \in DOMAIN l : l[i].cmd = c

HasOk(l, c) == \E i \in DOMAIN l : l[i].cmd = c /\ l[i].ok

HasFailed(l, c) == \E i \in DOMAIN l : l[i].cmd = c /\ ~l[i].ok

Count(l, c) == Cardinality({i \in DOMAIN l : l[i].cmd = c})

\* Position of the first entry for command c (0 when absent).
Pos(l, c) == IF Has(l, c) THEN CHOOSE i \in DOMAIN l : l[i].cmd = c /\ \A j \in 1..(i-1) : l[j].cmd # c ELSE 0

\* Entries that are git or gh subprocess invocations (exec.Command of git/gh);
\* the availability check and the cache-file accesses are not.
ToolCmds == {"status", "add", "commit", "sync_source", "git_push", "sync", "browse",
             "remote_show", "fetch", "rev_parse", "merge_base_fork_point", "merge_base",
             "rebase", "rebase_abort"}

\* Invocations that can write repository state.
MutatingCmds == {"add", "commit", "fetch", "merge_base_fork_point", "merge_base", "rebase", "rebase_abort"}

HasTool(l) == \E i \in DOMAIN l : l[i].cmd \in ToolCmds

\* Mutation: add and commit run whether or not the worktree is dirty.
PushStages_Always(isDirty) == TRUE

\* ------------------------------------------------------------ decisions
\* PushChanges: `if isDirty {` guards add and commit.
PushStages(isDirty) == isDirty

\* Mutation: the native push runs even after a successful first sync.
AfterFirstSync_AlwaysPush(ok) == "push_gitpush"

\* PushChanges: `if err := pushCmd.Run(); err != nil {` selects the native push.
AfterFirstSync(ok) == IF ok THEN "push_sync" ELSE "push_gitpush"

\* Mutation: the error of the open step is returned to the caller.
ResultAfterOpen_Propagate(ok) == IF ok THEN "ok" ELSE "err_open"

\* PushChanges: an OpenBranchURL error is logged and nil is returned.
ResultAfterOpen(ok) == "ok"

\* Mutation: the dirty check is dropped.
RebaseRefuses_Never(isDirty) == FALSE

\* RebaseOntoDefault: `if isDirty {` returns the precondition error.
RebaseRefuses(isDirty) == isDirty

\* Mutation: the plain merge-base runs whether or not the fork-point was found.
AfterForkPoint_AlwaysMergeBase(ok) == "rb_merge_base"

\* RebaseOntoDefault: a failed fork-point falls back to the plain merge-base.
AfterForkPoint(ok) == IF ok THEN "rb_rebase" ELSE "rb_merge_base"

\* RebaseOntoDefault: a failed rebase is followed by abortRebase.
AfterRebaseFailure == "rb_abort"

\* Mutation: a failed abort replaces the rebase error.
ResultAfterAbort_AbortError(abortOk) == IF abortOk THEN "err_rebase" ELSE "err_abort"

\* RebaseOntoDefault: the rebase error is returned whatever abortRebase returned.
ResultAfterAbort(abortOk) == "err_rebase"

\* The branch names a remote may use for its default branch.
BranchNames == {"main", "trunk"}

NoneKnown == [name |-> "", saved |-> FALSE]

\* The repo-local file exists: GetDefaultBranch wrote a default branch or a
\* devenv command wrote the development-environment section.
RecordExists == cachedBranch # "" \/ devEnabled # "nil"

\* LoadRepoConfig: the default branch of the record of the repo-local file, else
\* of the one of the legacy file ("": no record, or none with a default branch).
LoadRepoConfig == IF RecordExists THEN cachedBranch ELSE legacyBranch

\* Mutation: the legacy file is removed whether or not the migration was written.
RemoveLegacy_Always(migrateOk, removeOk) == removeOk

\* LoadRepoConfig removes the legacy file only after SaveRepoConfig succeeded
\* (a failed removal is only logged).
RemoveLegacy(migrateOk, removeOk) == migrateOk /\ removeOk

\* The record GetDefaultBranch caches is a new RepoConfig with RepoPath and
\* DefaultBranch only: its DevEnvironment section is nil.
NewRepoConfigDevEnv == "nil"

\* Mutation: the cached value is never used.
CacheHit_Never(loadOk) == FALSE

\* GetDefaultBranch: a cached, non-empty default branch is returned without a remote query.
CacheHit(loadOk) == loadOk /\ LoadRepoConfig # ""

\* ------------------------------------------------------------- plumbing
\* Append entries to the caller's log and update the overlap monitor: another
\* running operation that has already invoked a tool is now "between" two of
\* its invocations; a caller that invokes again after that is "interleaved".
Invoke(w, entries) ==
    /\ log' = [log EXCEPT ![w] = @ \o entries]
    /\ inter' = IF \E i \in DOMAIN entries : entries[i].cmd \in ToolCmds
                THEN [v \in Workers |->
                        IF v = w
                        THEN (IF inter[w] = "between" THEN "interleaved" ELSE inter[w])
                        ELSE IF pc[v] \notin {"idle", "done"} /\ HasTool(log[v]) /\ inter[v] = "no"
                             THEN "between"
                             ELSE inter[v]]
                ELSE inter

\* Continue at position p.
Goto(w, p) ==
    /\ pc' = [pc EXCEPT ![w] = p]
    /\ UNCHANGED <<result, gitMutex>>

\* Mutation: a return path that leaves the lock held.
Finish_NoUnlock(w, res) ==
    /\ pc' = [pc EXCEPT ![w] = "done"]
    /\ result' = [result EXCEPT ![w] = res]
    /\ gitMutex' = gitMutex

\* Return res to the caller; the deferred gitMutex.Unlock() runs if w holds the lock.
Finish(w, res) ==
    /\ pc' = [pc EXCEPT ![w] = "done"]
    /\ result' = [result EXCEPT ![w] = res]
    /\ gitMutex' = IF gitMutex = w THEN 0 ELSE gitMutex

\* ------------------------------------------------------ calls and returns
\* A caller (a tea.Cmd goroutine) starts PushChanges(commitMessage, open).
CallPushChanges(w) ==
    /\ pc[w] = "idle" /\ tip[w] < MaxTip /\ ~rebasing[w]
    /\ \E o \in BOOLEAN : openFlag' = [openFlag EXCEPT ![w] = o]
    /\ op' = [op EXCEPT ![w] = "push"]
    /\ pc' = [pc EXCEPT ![w] = "push_checkGHCLI"]
    /\ start' = [start EXCEPT ![w] = [dirty |-> dirty[w], tip |-> tip[w], rebasing |-> rebasing[w]]]
    /\ UNCHANGED <<gitMutex, log, result, dirty, tip, rebasing, cfgVars, defaultBranch, inter>>

\* A caller starts RebaseOntoDefault(); it first waits for gitMutex.
CallRebaseOntoDefault(w) ==
    /\ pc[w] = "idle" /\ tip[w] < MaxTip /\ ~rebasing[w]
    /\ op' = [op EXCEPT ![w] = "rebase"]
    /\ pc' = [pc EXCEPT ![w] = "rb_lock"]
    /\ start' = [start EXCEPT ![w] = [dirty |-> dirty[w], tip |-> tip[w], rebasing |-> rebasing[w]]]
    /\ UNCHANGED <<gitMutex, openFlag, log, result, dirty, tip, rebasing, cfgVars, defaultBranch, inter>>

\* The caller consumes the result; the worker is free for the next call.
Return(w) ==
    /\ pc[w] = "done"
    /\ pc' = [pc EXCEPT ![w] = "idle"]
    /\ op' = [op EXCEPT ![w] = "none"]
    /\ openFlag' = [openFlag EXCEPT ![w] = FALSE]
    /\ log' = [log EXCEPT ![w] = <<>>]
    /\ result' = [result EXCEPT ![w] = "none"]
    /\ inter' = [inter EXCEPT ![w] = "no"]
    /\ start' = [start EXCEPT ![w] = [dirty |-> FALSE, tip |-> 0, rebasing |-> FALSE]]
    /\ defaultBranch' = [defaultBranch EXCEPT ![w] = ""]
    /\ UNCHANGED <<gitMutex, dirty, tip, rebasing, cfgVars>>

\* ------------------------------------------------------------ environment
\* The agent process edits files in its worktree (between operations).
AgentWrites(w) ==
    /\ pc[w] = "idle" /\ ~dirty[w] /\ ~rebasing[w]
    /\ dirty' = [dirty EXCEPT ![w] = TRUE]
    /\ UNCHANGED <<gitMutex, pc, op, openFlag, log, result, tip, rebasing, cfgVars, defaultBranch, start, inter>>

\* The operator cleans up a worktree left in the middle of a rebase.
OperatorAbortsRebase(w) ==
    /\ pc[w] = "idle" /\ rebasing[w]
    /\ rebasing' = [rebasing EXCEPT ![w] = FALSE]
    /\ dirty' = [dirty EXCEPT ![w] = FALSE]
    /\ UNCHANGED <<gitMutex, pc, op, openFlag, log, result, tip, cfgVars, defaultBranch, start, inter>>

\* ------------------------------------------------------------ PushChanges
\* checkGHCLI(): the gh tool must be available, else the error is returned.
PushChanges_checkGHCLI(w) ==
    /\ pc[w] = "push_checkGHCLI"
    /\ \E ok \in BOOLEAN :
        /\ Invoke(w, <<Entry("gh_check", ok)>>)
        /\ IF ok THEN Goto(w, "push_IsDirty") ELSE Finish(w, "err_gh")
    /\ UNCHANGED <<op, openFlag, dirty, tip, rebasing, cfgVars, defaultBranch, start>>

\* g.IsDirty(): git status --porcelain; dirty selects the add/commit branch.
PushChanges_IsDirty(w) ==
    /\ pc[w] = "push_IsDirty"
    /\ \E ok \in BOOLEAN :
        /\ Invoke(w, <<Entry("status", ok)>>)
        /\ IF ~ok THEN Finish(w, "err_status")
           ELSE IF PushStages(dirty[w]) THEN Goto(w, "push_add")
           ELSE Goto(w, "push_sync_source")
    /\ UNCHANGED <<op, openFlag, dirty, tip, rebasing, cfgVars, defaultBranch, start>>

\* git add .
PushChanges_add(w) ==
    /\ pc[w] = "push_add"
    /\ \E ok \in BOOLEAN :
        /\ Invoke(w, <<Entry("add", ok)>>)
        /\ IF ok THEN Goto(w, "push_commit") ELSE Finish(w, "err_stage")
    /\ UNCHANGED <<op, openFlag, dirty, tip, rebasing, cfgVars, defaultBranch, start>>

\* git commit -m <message> --no-verify: on success the worktree is clean and the tip moves.
PushChanges_commit(w) ==
    /\ pc[w] = "push_commit"
    /\ \E ok \in BOOLEAN :
        /\ Invoke(w, <<Entry("commit", ok)>>)
        /\ IF ok
           THEN /\ dirty' = [dirty EXCEPT ![w] = FALSE]
                /\ tip' = [tip EXCEPT ![w] = @ + 1]
                /\ Goto(w, "push_sync_source")
           ELSE /\ UNCHANGED <<dirty, tip>>
                /\ Finish(w, "err_commit")
    /\ UNCHANGED <<op, openFlag, rebasing, cfgVars, defaultBranch, start>>

\* gh repo sync --source -b <branch>: the first publish attempt.
PushChanges_syncSource(w) ==
    /\ pc[w] = "push_sync_source"
    /\ \E ok \in BOOLEAN :
        /\ Invoke(w, <<Entry("sync_source", ok)>>)
        /\ Goto(w, AfterFirstSync(ok))
    /\ UNCHANGED <<op, openFlag, dirty, tip, rebasing, cfgVars, defaultBranch, start>>

\* git push -u origin <branch>: only after a failed first sync.
PushChanges_gitPush(w) ==
    /\ pc[w] = "push_gitpush"
    /\ \E ok \in BOOLEAN :
        /\ Invoke(w, <<Entry("git_push", ok)>>)
        /\ IF ok THEN Goto(w, "push_sync") ELSE Finish(w, "err_push")
    /\ UNCHANGED <<op, openFlag, dirty, tip, rebasing, cfgVars, defaultBranch, start>>

\* gh repo sync -b <branch>: the final sync; then the optional open step.
PushChanges_sync(w) ==
    /\ pc[w] = "push_sync"
    /\ \E ok \in BOOLEAN :
        /\ Invoke(w, <<Entry("sync", ok)>>)
        /\ IF ~ok THEN Finish(w, "err_sync")
           ELSE IF openFlag[w] THEN Goto(w, "push_open")
           ELSE Finish(w, "ok")
    /\ UNCHANGED <<op, openFlag, dirty, tip, rebasing, cfgVars, defaultBranch, start>>

\* OpenBranchURL(): checkGHCLI, then gh browse --branch <branch>; its error is only logged.
OpenBranchURL(w) ==
    /\ pc[w] = "push_open"
    /\ \E ghOk \in BOOLEAN, ok \in BOOLEAN :
        /\ IF ghOk
           THEN Invoke(w, <<Entry("gh_check", TRUE), Entry("browse", ok)>>)
           ELSE Invoke(w, <<Entry("gh_check", FALSE)>>)
        /\ Finish(w, ResultAfterOpen(ghOk /\ ok))
    /\ UNCHANGED <<op, openFlag, dirty, tip, rebasing, cfgVars, defaultBranch, start>>

PushChanges(w) ==
    \/ PushChanges_checkGHCLI(w)
    \/ PushChanges_IsDirty(w)
    \/ PushChanges_add(w)
    \/ PushChanges_commit(w)
    \/ PushChanges_syncSource(w)
    \/ PushChanges_gitPush(w)
    \/ PushChanges_sync(w)
    \/ OpenBranchURL(w)

\* ------------------------------------------------------ RebaseOntoDefault
\* gitMutex.Lock(): blocks until the lock is free.
RebaseOntoDefault_Lock(w) ==
    /\ pc[w] = "rb_lock"
    /\ gitMutex = 0
    /\ gitMutex' = w
    /\ pc' = [pc EXCEPT ![w] = "rb_GetDefaultBranch"]
    /\ UNCHANGED <<op, openFlag, log, result, dirty, tip, rebasing, cfgVars, defaultBranch, start, inter>>

\* config.GetDefaultBranch(repoPath): LoadRepoConfig; on a cache hit return the
\* cached name, otherwise git remote show origin, parse "HEAD branch:" and
\* SaveRepoConfig (a failed save is only logged).
GetDefaultBranch(w) ==
    /\ pc[w] = "rb_GetDefaultBranch"
    /\ lastReset' = "none"
    /\ \E loadOk \in BOOLEAN :
        IF CacheHit(loadOk)
        THEN /\ IF cachedBranch # ""
                THEN /\ Invoke(w, <<Entry("cache_read", TRUE)>>)
                     /\ UNCHANGED <<cachedBranch, legacyBranch>>
                ELSE \E migrateOk \in BOOLEAN, removeOk \in BOOLEAN :
                     /\ Invoke(w, <<Entry("cache_read", TRUE), Entry("cache_write", migrateOk)>>)
                     /\ cachedBranch' = IF migrateOk THEN legacyBranch ELSE cachedBranch
                     /\ legacyBranch' = IF RemoveLegacy(migrateOk, removeOk) THEN "" ELSE legacyBranch
             /\ defaultBranch' = [defaultBranch EXCEPT ![w] = LoadRepoConfig]
             /\ known' = [name |-> LoadRepoConfig, saved |-> TRUE]
             /\ UNCHANGED devEnabled
             /\ Goto(w, "rb_IsDirty")
        ELSE \E showOk \in BOOLEAN, parsed \in BOOLEAN, saveOk \in BOOLEAN :
                IF ~showOk
                THEN /\ Invoke(w, <<Entry("cache_read", loadOk), Entry("remote_show", FALSE)>>)
                     /\ Finish(w, "err_default_branch")
                     /\ UNCHANGED <<cachedBranch, legacyBranch, defaultBranch, known, devEnabled>>
                ELSE IF ~parsed
                THEN /\ Invoke(w, <<Entry("cache_read", loadOk), Entry("remote_show", TRUE)>>)
                     /\ Finish(w, "err_default_branch")
                     /\ UNCHANGED <<cachedBranch, legacyBranch, defaultBranch, known, devEnabled>>
                ELSE /\ Invoke(w, <<Entry("cache_read", loadOk), Entry("remote_show", TRUE),
                                    Entry("cache_write", saveOk)>>)
                     /\ cachedBranch' = IF saveOk THEN remoteHead ELSE cachedBranch
                     /\ devEnabled' = IF saveOk THEN NewRepoConfigDevEnv ELSE devEnabled
                     /\ defaultBranch' = [defaultBranch EXCEPT ![w] = remoteHead]
                     /\ known' = [name |-> remoteHead, saved |-> saveOk]
                     /\ UNCHANGED legacyBranch
                     /\ Goto(w, "rb_IsDirty")
    /\ UNCHANGED <<op, openFlag, dirty, tip, rebasing, remoteHead, start>>

\* g.IsDirty(): a dirty worktree is refused with the precondition error.
RebaseOntoDefault_IsDirty(w) ==
    /\ pc[w] = "rb_IsDirty"
    /\ \E ok \in BOOLEAN :
        /\ Invoke(w, <<Entry("status", ok)>>)
        /\ IF ~ok THEN Finish(w, "err_status")
           ELSE IF RebaseRefuses(dirty[w]) THEN Finish(w, "err_uncommitted")
           ELSE Goto(w, "rb_fetch")
    /\ UNCHANGED <<op, openFlag, dirty, tip, rebasing, cfgVars, defaultBranch, start>>

\* git fetch origin <defaultBranch>
RebaseOntoDefault_fetch(w) ==
    /\ pc[w] = "rb_fetch"
    /\ \E ok \in BOOLEAN :
        /\ Invoke(w, <<Entry("fetch", ok)>>)
        /\ IF ok THEN Goto(w, "rb_rev_parse") ELSE Finish(w, "err_fetch")
    /\ UNCHANGED <<op, openFlag, dirty, tip, rebasing, cfgVars, defaultBranch, start>>

\* git rev-parse --abbrev-ref HEAD
RebaseOntoDefault_revParse(w) ==
    /\ pc[w] = "rb_rev_parse"
    /\ \E ok \in BOOLEAN :
        /\ Invoke(w, <<Entry("rev_parse", ok)>>)
        /\ IF ok THEN Goto(w, "rb_fork_point") ELSE Finish(w, "err_current_branch")
    /\ UNCHANGED <<op, openFlag, dirty, tip, rebasing, cfgVars, defaultBranch, start>>

\* git merge-base --fork-point origin/<defaultBranch>
RebaseOntoDefault_forkPoint(w) ==
    /\ pc[w] = "rb_fork_point"
    /\ \E ok \in BOOLEAN :
        /\ Invoke(w, <<Entry("merge_base_fork_point", ok)>>)
        /\ Goto(w, AfterForkPoint(ok))
    /\ UNCHANGED <<op, openFlag, dirty, tip, rebasing, cfgVars, defaultBranch, start>>

\* git merge-base origin/<defaultBranch> <currentBranch>: the fallback.
RebaseOntoDefault_mergeBase(w) ==
    /\ pc[w] = "rb_merge_base"
    /\ \E ok \in BOOLEAN :
        /\ Invoke(w, <<Entry("merge_base", ok)>>)
        /\ IF ok THEN Goto(w, "rb_rebase") ELSE Finish(w, "err_merge_base")
    /\ UNCHANGED <<op, openFlag, dirty, tip, rebasing, cfgVars, defaultBranch, start>>

\* git rebase --onto origin/<defaultBranch> <forkPoint> <currentBranch>.
\* Success leaves the tip where it was (nothing to replay) or at a rewritten
\* commit.  A failure either happened before the rebase started or stopped it
\* midway (conflict): then a rebase is in progress and status is not clean.
RebaseOntoDefault_rebase(w) ==
    /\ pc[w] = "rb_rebase"
    /\ \E ok \in BOOLEAN, moved \in BOOLEAN, stopped \in BOOLEAN :
        /\ Invoke(w, <<Entry("rebase", ok)>>)
        /\ IF ok
           THEN /\ tip' = [tip EXCEPT ![w] = IF moved THEN @ + 1 ELSE @]
                /\ UNCHANGED <<dirty, rebasing>>
                /\ Finish(w, "ok")
           ELSE /\ rebasing' = [rebasing EXCEPT ![w] = stopped]
                /\ dirty' = [dirty EXCEPT ![w] = stopped]
                /\ UNCHANGED tip
                /\ Goto(w, AfterRebaseFailure)
    /\ UNCHANGED <<op, openFlag, cfgVars, defaultBranch, start>>

\* Mutation: the rebase error is returned without running git rebase --abort.
abortRebase_Skipped(w) ==
    /\ pc[w] = "rb_abort"
    /\ Invoke(w, <<>>)
    /\ Finish(w, "err_rebase")
    /\ UNCHANGED <<op, openFlag, dirty, tip, rebasing, cfgVars, defaultBranch, start>>

\* abortRebase(): git rebase --abort.  It can succeed only while a rebase is in
\* progress, and then restores the pre-rebase worktree; when it fails nothing
\* changes.  The rebase error is returned either way.
abortRebase(w) ==
    /\ pc[w] = "rb_abort"
    /\ \E ok \in BOOLEAN :
        /\ ok => rebasing[w]
        /\ Invoke(w, <<Entry("rebase_abort", ok)>>)
        /\ IF ok
           THEN /\ rebasing' = [rebasing EXCEPT ![w] = FALSE]
                /\ dirty' = [dirty EXCEPT ![w] = FALSE]
           ELSE UNCHANGED <<rebasing, dirty>>
        /\ Finish(w, ResultAfterAbort(ok))
    /\ UNCHANGED <<op, openFlag, tip, cfgVars, defaultBranch, start>>

RebaseOntoDefault(w) ==
    \/ RebaseOntoDefault_Lock(w)
    \/ GetDefaultBranch(w)
    \/ RebaseOntoDefault_IsDirty(w)
    \/ RebaseOntoDefault_fetch(w)
    \/ RebaseOntoDefault_revParse(w)
    \/ RebaseOntoDefault_forkPoint(w)
    \/ RebaseOntoDefault_mergeBase(w)
    \/ RebaseOntoDefault_rebase(w)
    \/ abortRebase(w)

\* ---------------------------------------------------------- specification
InitGit ==
    /\ gitMutex = 0
    /\ pc = [w \in Workers |-> "idle"]
    /\ op = [w \in Workers |-> "none"]
    /\ openFlag = [w \in Workers |-> FALSE]
    /\ log = [w \in Workers |-> <<>>]
    /\ result = [w \in Workers |-> "none"]
    /\ dirty = [w \in Workers |-> FALSE]
    /\ tip = [w \in Workers |-> 0]
    /\ rebasing = [w \in Workers |-> FALSE]
    /\ cachedBranch \in {"", "main"}
    /\ legacyBranch = ""
    /\ remoteHead = "main"
    /\ defaultBranch = [w \in Workers |-> ""]
    /\ known = NoneKnown
    /\ lastReset = "none"
    /\ devEnabled = "nil"
    /\ start = [w \in Workers |-> [dirty |-> FALSE, tip |-> 0, rebasing |-> FALSE]]
    /\ inter = [w \in Workers |-> "no"]
    /\ repoPath = [w \in Workers |-> "A"]

NextGit ==
    /\ UNCHANGED <<appVars, mainVars, devVars, newVars, genVars, repoPath>>
    /\ \E w \in Workers :
        \/ CallPushChanges(w)
        \/ CallRebaseOntoDefault(w)
        \/ PushChanges(w)
        \/ RebaseOntoDefault(w)
        \/ Return(w)
        \/ AgentWrites(w)
        \/ OperatorAbortsRebase(w)

\* ============================================================ control loop
NoPoll == [polled |-> FALSE, updated |-> FALSE, prompt |-> FALSE, set |-> "none", tapped |-> FALSE, again |-> FALSE]

NoKill == [target |-> 0, outcome |-> "none"]

NoOverlay == [kind |-> "nil", dismissed |-> FALSE]

NoInfo == [kind |-> "nil", target |-> 0, needsLoading |-> FALSE]

\* overlay.NewConfirmationOverlay(message): kind stands for the message and
\* the OnConfirm and OnCancel callbacks set by the caller.
NewConfirmationOverlay(kind) == [kind |-> kind, dismissed |-> FALSE]

\* handleKeyPress: all key presses are ignored in stateLoading.
KeysIgnored == uiState = "loading"

\* handleKeyPress reaches the global key map: Update passed the key on, it is
\* not ignored and no other state's handler took it.
GlobalKeymap == ~quitConfirmed /\ ~KeysIgnored /\ uiState # "confirm"

\* list.GetSelectedInstance(): nil (0) when the list is empty.
GetSelectedInstance == IF Len(items) = 0 THEN 0 ELSE items[selectedIdx + 1]

\* Instance.Started(): every instance loaded from storage or registered after Start.
Started(i) == \E k \in DOMAIN items : items[k] = i

\* Instance.Paused()
Paused(i) == status[i] = "Paused"

\* Instance.HasUpdated(): updated iff the captured screen differs from the one
\* captured by the previous call; prompt iff the screen shows the prompt.
HasUpdated(i) == [updated |-> content[i] # prevContent[i], prompt |-> content[i] = 0]

\* Mutation: the keystroke is sent whatever the flag says.
TapEnter_Always(i) == TRUE

\* Instance.TapEnter(): sends the confirm keystroke only with the auto-accept flag.
TapEnter(i) == autoYes[i]

\* Mutation: the Ready branch is taken whenever the content is unchanged.
TickSetStatus_IgnorePrompt(updated, prompt) == IF updated THEN "Running" ELSE "Ready"

\* tickUpdateMetadataMessage: which SetStatus call the tick makes ("none": no call).
TickSetStatus(updated, prompt) ==
    IF updated THEN "Running"
    ELSE IF prompt THEN "none"
    ELSE "Ready"

\* Mutation: the tick never calls TapEnter.
TickTaps_Never(updated, prompt) == FALSE

\* tickUpdateMetadataMessage: the tick calls TapEnter in the branch for
\* unchanged content that shows a prompt.
TickTaps(updated, prompt) == ~updated /\ prompt

\* Mutation: the tick skips only the instances that are not started.
PollOf_PausedToo(i) ==
    IF ~Started(i) THEN NoPoll
    ELSE LET h == HasUpdated(i) IN
         [polled |-> TRUE, updated |-> h.updated, prompt |-> h.prompt,
          set |-> TickSetStatus(h.updated, h.prompt),
          tapped |-> TickTaps(h.updated, h.prompt) /\ TapEnter(i),
          again |-> lastPoll[i].polled /\ ~lastPoll[i].updated]

\* What one tick does to instance i; again: the previous tick polled the
\* instance and found its content unchanged as well.
PollOf(i) ==
    IF ~Started(i) \/ Paused(i) THEN NoPoll
    ELSE LET h == HasUpdated(i) IN
         [polled |-> TRUE, updated |-> h.updated, prompt |-> h.prompt,
          set |-> TickSetStatus(h.updated, h.prompt),
          tapped |-> TickTaps(h.updated, h.prompt) /\ TapEnter(i),
          again |-> lastPoll[i].polled /\ ~lastPoll[i].updated]

\* Update(tickUpdateMetadataMessage): poll every started, non-paused instance in list order.
Tick ==
    /\ ~quitConfirmed
    /\ lastPoll' = [i \in Instances |-> PollOf(i)]
    /\ status' = [i \in Instances |-> IF PollOf(i).set # "none" THEN PollOf(i).set ELSE status[i]]
    /\ prevContent' = [i \in Instances |-> IF PollOf(i).polled THEN content[i] ELSE prevContent[i]]
    /\ UNCHANGED <<uiState, items, selectedIdx, autoYes, content, persisted, sessionAlive, worktreePresent,
                   checkedOutBranch, pendingAction, running, msgs, lastKill>>
    /\ UNCHANGED <<confirmationOverlay, loadingOverlay, pendingActionInfo, runningOps, quitConfirmed, quit, frame>>
    /\ UNCHANGED branch

\* The agent process of a live session redraws its screen.
AgentOutput(i) ==
    /\ Started(i) /\ sessionAlive[i]
    /\ \E c \in Screens \ {content[i]} : content' = [content EXCEPT ![i] = c]
    /\ UNCHANGED <<uiState, items, selectedIdx, status, autoYes, prevContent, lastPoll, persisted, sessionAlive,
                   worktreePresent, checkedOutBranch, pendingAction, running, msgs, lastKill>>
    /\ UNCHANGED <<confirmationOverlay, loadingOverlay, pendingActionInfo, runningOps, quitConfirmed, quit, frame>>
    /\ UNCHANGED branch

\* The operator checks out another branch in the main repository.
OperatorChecksOut(b) ==
    /\ b # checkedOutBranch
    /\ checkedOutBranch' = b
    /\ UNCHANGED <<uiState, items, selectedIdx, status, autoYes, content, prevContent, lastPoll, persisted,
                   sessionAlive, worktreePresent, pendingAction, running, msgs, lastKill>>
    /\ UNCHANGED <<confirmationOverlay, loadingOverlay, pendingActionInfo, runningOps, quitConfirmed, quit, frame>>
    /\ UNCHANGED branch

\* handleKeyPress, keys.KeyUp: list.Up().
KeyUp ==
    /\ GlobalKeymap
    /\ selectedIdx' = IF selectedIdx > 0 THEN selectedIdx - 1 ELSE selectedIdx
    /\ UNCHANGED <<uiState, items, status, autoYes, content, prevContent, lastPoll, persisted, sessionAlive,
                   worktreePresent, checkedOutBranch, pendingAction, running, msgs, lastKill>>
    /\ UNCHANGED <<confirmationOverlay, loadingOverlay, pendingActionInfo, runningOps, quitConfirmed, quit, frame>>
    /\ UNCHANGED branch

\* handleKeyPress, keys.KeyDown: list.Down().
KeyDown ==
    /\ GlobalKeymap
    /\ selectedIdx' = IF selectedIdx < Len(items) - 1 THEN selectedIdx + 1 ELSE selectedIdx
    /\ UNCHANGED <<uiState, items, status, autoYes, content, prevContent, lastPoll, persisted, sessionAlive,
                   worktreePresent, checkedOutBranch, pendingAction, running, msgs, lastKill>>
    /\ UNCHANGED <<confirmationOverlay, loadingOverlay, pendingActionInfo, runningOps, quitConfirmed, quit, frame>>
    /\ UNCHANGED branch

\* handleKeyPress, keys.KeyKill: build the kill action for the selected
\* instance and show the confirmation modal (confirmAction).
KeyKill ==
    /\ GlobalKeymap
    /\ GetSelectedInstance # 0
    /\ uiState' = "confirm"
    /\ pendingAction' = GetSelectedInstance
    /\ pendingActionInfo' = NoInfo
    /\ confirmationOverlay' = NewConfirmationOverlay("kill")
    /\ UNCHANGED <<items, selectedIdx, status, autoYes, content, prevContent, lastPoll, persisted, sessionAlive,
                   worktreePresent, checkedOutBranch, running, msgs, lastKill>>
    /\ UNCHANGED <<loadingOverlay, runningOps, quitConfirmed, quit, frame>>
    /\ UNCHANGED branch

\* handleKeyPress, keys.KeySubmit and keys.KeyRebase: build the push or rebase
\* action for the selected instance and show the confirmation modal
\* (confirmActionWithLoading).
KeyWithLoading(kind) ==
    /\ GlobalKeymap
    /\ GetSelectedInstance # 0
    /\ uiState' = "confirm"
    /\ pendingAction' = 0
    /\ pendingActionInfo' = [kind |-> kind, target |-> GetSelectedInstance, needsLoading |-> TRUE]
    /\ confirmationOverlay' = NewConfirmationOverlay(kind)
    /\ UNCHANGED <<items, selectedIdx, status, autoYes, content, prevContent, lastPoll, persisted, sessionAlive,
                   worktreePresent, checkedOutBranch, running, msgs, lastKill>>
    /\ UNCHANGED <<loadingOverlay, runningOps, quitConfirmed, quit, frame>>
    /\ UNCHANGED branch

KeySubmit == KeyWithLoading("push")

KeyRebase == KeyWithLoading("rebase")

\* handleKeyPress, q or ctrl+c: handleQuitConfirmation shows the quit modal;
\* the pending action fields are left as they are.
KeyQuit ==
    /\ GlobalKeymap
    /\ uiState' = "confirm"
    /\ confirmationOverlay' = NewConfirmationOverlay("quit")
    /\ UNCHANGED <<items, selectedIdx, status, autoYes, content, prevContent, lastPoll, persisted, sessionAlive,
                   worktreePresent, checkedOutBranch, pendingAction, running, msgs, lastKill>>
    /\ UNCHANGED <<loadingOverlay, pendingActionInfo, runningOps, quitConfirmed, quit, frame>>
    /\ UNCHANGED branch

\* handleKeyPress in stateConfirm, key y: the overlay runs OnConfirm (the quit
\* modal sets quitConfirmed) and is dismissed. A pending action with
\* needsLoading is returned together with the loading overlay and the handler
\* returns at once; otherwise the pending action, if any, is returned and the
\* overlay and both pending fields are cleared. Returned commands are executed
\* asynchronously by the runtime.
ConfirmYes ==
    /\ ~quitConfirmed
    /\ uiState = "confirm"
    /\ quitConfirmed' = (confirmationOverlay.kind = "quit")
    /\ IF pendingActionInfo # NoInfo
       THEN /\ uiState' = "loading"
            /\ loadingOverlay' = "shown"
            /\ runningOps' = runningOps \cup {[kind |-> pendingActionInfo.kind, target |-> pendingActionInfo.target]}
            /\ confirmationOverlay' = [confirmationOverlay EXCEPT !.dismissed = TRUE]
            /\ UNCHANGED <<pendingAction, pendingActionInfo, running>>
       ELSE /\ running' = IF pendingAction # 0 THEN running \cup {pendingAction} ELSE running
            /\ uiState' = "default"
            /\ confirmationOverlay' = NoOverlay
            /\ pendingAction' = 0
            /\ pendingActionInfo' = NoInfo
            /\ UNCHANGED <<loadingOverlay, runningOps>>
    /\ UNCHANGED <<items, selectedIdx, status, autoYes, content, prevContent, lastPoll, persisted, sessionAlive,
                   worktreePresent, checkedOutBranch, msgs, lastKill>>
    /\ UNCHANGED <<quit, frame>>
    /\ UNCHANGED branch

\* handleKeyPress in stateConfirm, key n or esc: the overlay runs OnCancel and
\* is dismissed; the overlay and both pending fields are cleared.
ConfirmNo ==
    /\ ~quitConfirmed
    /\ uiState = "confirm"
    /\ uiState' = "default"
    /\ confirmationOverlay' = NoOverlay
    /\ pendingAction' = 0
    /\ pendingActionInfo' = NoInfo
    /\ UNCHANGED <<items, selectedIdx, status, autoYes, content, prevContent, lastPoll, persisted, sessionAlive,
                   worktreePresent, checkedOutBranch, running, msgs, lastKill>>
    /\ UNCHANGED <<loadingOverlay, runningOps, quitConfirmed, quit, frame>>
    /\ UNCHANGED branch

\* list.Kill(): tears down and removes the instance selected now; the
\* selection moves up when the last item was removed.
ListKill ==
    IF Len(items) = 0
    THEN UNCHANGED <<items, selectedIdx, sessionAlive, worktreePresent>>
    ELSE LET victim == items[selectedIdx + 1] IN
         /\ items' = [k \in 1..(Len(items) - 1) |-> IF k <= selectedIdx THEN items[k] ELSE items[k + 1]]
         /\ selectedIdx' = IF selectedIdx = Len(items) - 1 /\ selectedIdx > 0 THEN selectedIdx - 1 ELSE selectedIdx
         /\ sessionAlive' = [sessionAlive EXCEPT ![victim] = FALSE]
         /\ worktreePresent' = [worktreePresent EXCEPT ![victim] = FALSE]

\* The kill action refuses when the instance's branch is the checked-out one.
KillRefused(checkedOut) == checkedOut

\* killAction (the tea.Cmd built by keys.KeyKill) for the captured instance t:
\* GetGitWorktree, IsBranchCheckedOut, storage.DeleteInstance, list.Kill.
KillAction(t) ==
    /\ ~quit
    /\ t \in running
    /\ running' = running \ {t}
    /\ \E worktreeOk \in BOOLEAN, branchOk \in BOOLEAN, deleteOk \in BOOLEAN :
        IF ~worktreeOk \/ ~branchOk
        THEN /\ msgs' = msgs \cup {"error"}
             /\ lastKill' = [target |-> t, outcome |-> "failed"]
             /\ UNCHANGED <<items, selectedIdx, sessionAlive, worktreePresent, persisted>>
        ELSE IF KillRefused(checkedOutBranch = t)
        THEN /\ msgs' = msgs \cup {"error"}
             /\ lastKill' = [target |-> t, outcome |-> "refused"]
             /\ UNCHANGED <<items, selectedIdx, sessionAlive, worktreePresent, persisted>>
        ELSE IF ~deleteOk
        THEN /\ msgs' = msgs \cup {"error"}
             /\ lastKill' = [target |-> t, outcome |-> "failed"]
             /\ UNCHANGED <<items, selectedIdx, sessionAlive, worktreePresent, persisted>>
        ELSE /\ persisted' = persisted \ {t}
             /\ ListKill
             /\ msgs' = msgs \cup {"instanceChanged"}
             /\ lastKill' = [target |-> t, outcome |-> "killed"]
    /\ UNCHANGED <<uiState, status, autoYes, content, prevContent, lastPoll, checkedOutBranch, pendingAction>>
    /\ UNCHANGED <<confirmationOverlay, loadingOverlay, pendingActionInfo, runningOps, quitConfirmed, quit, frame>>
    /\ UNCHANGED branch

\* pushAction and rebaseAction (the tea.Cmd built by keys.KeySubmit and
\* keys.KeyRebase): GetGitWorktree and PushChanges or RebaseOntoDefault; the
\* result is the completion message or the error.
OpAction(o) ==
    /\ ~quit
    /\ o \in runningOps
    /\ runningOps' = runningOps \ {o}
    /\ \E ok \in BOOLEAN :
        msgs' = msgs \cup {IF ~ok THEN "error" ELSE IF o.kind = "push" THEN "pushComplete" ELSE "rebaseComplete"}
    /\ UNCHANGED <<uiState, items, selectedIdx, status, autoYes, content, prevContent, lastPoll, persisted,
                   sessionAlive, worktreePresent, checkedOutBranch, pendingAction, running, lastKill>>
    /\ UNCHANGED <<confirmationOverlay, loadingOverlay, pendingActionInfo, quitConfirmed, quit, frame>>
    /\ UNCHANGED branch

\* Update(pushCompleteMsg, rebaseCompleteMsg): dismiss the loading overlay
\* and go back to the default state.
UpdateComplete(m) ==
    /\ ~quitConfirmed
    /\ m \in msgs
    /\ msgs' = msgs \ {m}
    /\ loadingOverlay' = "nil"
    /\ uiState' = "default"
    /\ UNCHANGED <<items, selectedIdx, status, autoYes, content, prevContent, lastPoll, persisted, sessionAlive,
                   worktreePresent, checkedOutBranch, pendingAction, running, lastKill>>
    /\ UNCHANGED <<confirmationOverlay, pendingActionInfo, runningOps, quitConfirmed, quit, frame>>
    /\ UNCHANGED branch

\* Update(error): dismiss the loading overlay and go back to the default state
\* (the error text goes to the error box).
UpdateError ==
    /\ ~quitConfirmed
    /\ "error" \in msgs
    /\ msgs' = msgs \ {"error"}
    /\ loadingOverlay' = "nil"
    /\ uiState' = "default"
    /\ UNCHANGED <<items, selectedIdx, status, autoYes, content, prevContent, lastPoll, persisted, sessionAlive,
                   worktreePresent, checkedOutBranch, pendingAction, running, lastKill>>
    /\ UNCHANGED <<confirmationOverlay, pendingActionInfo, runningOps, quitConfirmed, quit, frame>>
    /\ UNCHANGED branch

\* Update(instanceChangedMsg): instanceChanged() refreshes the panes.
UpdateInstanceChanged ==
    /\ ~quitConfirmed
    /\ "instanceChanged" \in msgs
    /\ msgs' = msgs \ {"instanceChanged"}
    /\ UNCHANGED <<uiState, items, selectedIdx, status, autoYes, content, prevContent, lastPoll, persisted,
                   sessionAlive, worktreePresent, checkedOutBranch, pendingAction, running, lastKill>>
    /\ UNCHANGED <<confirmationOverlay, loadingOverlay, pendingActionInfo, runningOps, quitConfirmed, quit, frame>>
    /\ UNCHANGED branch

\* Update(spinner.TickMsg): the spinner, and the loading overlay's spinner in
\* stateLoading, advance by a frame.
SpinnerTick ==
    /\ ~quitConfirmed
    /\ frame' = 1 - frame
    /\ UNCHANGED <<uiState, items, selectedIdx, status, autoYes, content, prevContent, lastPoll, persisted,
                   sessionAlive, worktreePresent, checkedOutBranch, pendingAction, running, msgs, lastKill>>
    /\ UNCHANGED <<confirmationOverlay, loadingOverlay, pendingActionInfo, runningOps, quitConfirmed, quit>>
    /\ UNCHANGED branch

QuitAfterSave_Always(saveOk) == TRUE

\* The quit prelude returns tea.Quit only when SaveInstances returned no error.
QuitAfterSave(saveOk) == saveOk

\* Update, any message, once the quit is confirmed: SaveInstances, then
\* tea.Quit; when saving fails the error is shown and the program goes on.
\* m is the message that was delivered ("key": a key press; "tick": a timer).
UpdateQuitConfirmed(m) ==
    /\ quitConfirmed /\ ~quit
    /\ m \in msgs \cup {"key", "tick"}
    /\ msgs' = msgs \ {m}
    /\ \E saveOk \in BOOLEAN :
        /\ quit' = QuitAfterSave(saveOk)
        /\ persisted' = IF saveOk THEN {items[k] : k \in DOMAIN items} ELSE persisted
    /\ UNCHANGED <<uiState, items, selectedIdx, status, autoYes, content, prevContent, lastPoll,
                   sessionAlive, worktreePresent, checkedOutBranch, pendingAction, running, lastKill>>
    /\ UNCHANGED <<confirmationOverlay, loadingOverlay, pendingActionInfo, runningOps, quitConfirmed, frame>>
    /\ UNCHANGED branch

\* newHome: the instances loaded from storage are in the list with their
\* persisted status and flag; a paused instance has neither a terminal session
\* nor a worktree.
Loaded(statuses) ==
    /\ uiState = "default"
    /\ items = <<1, 2>>
    /\ selectedIdx = 0
    /\ status \in [Instances -> statuses]
    /\ autoYes \in [Instances -> BOOLEAN]
    /\ content = [i \in Instances |-> 1]
    /\ prevContent = [i \in Instances |-> -1]
    /\ lastPoll = [i \in Instances |-> NoPoll]
    /\ persisted = Instances
    /\ sessionAlive = [i \in Instances |-> status[i] # "Paused"]
    /\ worktreePresent = [i \in Instances |-> status[i] # "Paused"]
    /\ checkedOutBranch = 0
    /\ pendingAction = 0
    /\ running = {}
    /\ msgs = {}
    /\ lastKill = NoKill
    /\ confirmationOverlay = NoOverlay
    /\ loadingOverlay = "nil"
    /\ pendingActionInfo = NoInfo
    /\ runningOps = {}
    /\ quitConfirmed = FALSE
    /\ quit = FALSE
    /\ frame = 0
    /\ branch = [i \in Instances |-> i]

\* ================================================== program start and exit
\* The autoYes local of rootCmd.RunE: the flag overrides the configuration.
RunAutoYes == cfgAutoYes \/ autoYesFlag

\* The operator starts the program (without --daemon) in some directory.
StartProgram ==
    /\ mainPc = "idle"
    /\ isGitRepo' \in BOOLEAN
    /\ cfgAutoYes' \in BOOLEAN
    /\ autoYesFlag' \in BOOLEAN
    /\ mainPc' = "IsGitRepo"
    /\ UNCHANGED <<deferLaunch, mainResult, fgPolling, daemon>>

\* Mutation: the repository check lets every directory pass.
RepoCheckPasses_Always(inRepo) == TRUE

\* rootCmd.RunE: `if !git.IsGitRepo(currentDir) {` returns the error.
RepoCheckPasses(inRepo) == inRepo

\* rootCmd.RunE: outside a git repository the command returns an error at once.
RunE_IsGitRepo ==
    /\ mainPc = "IsGitRepo"
    /\ IF RepoCheckPasses(isGitRepo)
       THEN mainPc' = "LoadConfig" /\ UNCHANGED mainResult
       ELSE mainPc' = "exited" /\ mainResult' = "err_not_git_repo"
    /\ UNCHANGED <<isGitRepo, cfgAutoYes, autoYesFlag, deferLaunch, fgPolling, daemon>>

\* rootCmd.RunE: with auto-accept mode the daemon launch is deferred to the return.
RunE_LoadConfig ==
    /\ mainPc = "LoadConfig"
    /\ deferLaunch' = RunAutoYes
    /\ mainPc' = "StopDaemon"
    /\ UNCHANGED <<isGitRepo, cfgAutoYes, autoYesFlag, mainResult, fgPolling, daemon>>

\* daemon.StopDaemon(): stops the daemon if one is running; a failure leaves
\* the daemon process as it was.
StopDaemon(ok) == IF ok THEN "off" ELSE daemon

\* rootCmd.RunE: "Kill any daemon that's running"; an error is only logged.
RunE_StopDaemon ==
    /\ mainPc = "StopDaemon"
    /\ \E ok \in BOOLEAN : daemon' = StopDaemon(ok)
    /\ mainPc' = "Run"
    /\ UNCHANGED <<isGitRepo, cfgAutoYes, autoYesFlag, deferLaunch, mainResult, fgPolling>>

\* rootCmd.RunE: app.Run starts the foreground control loop.
RunE_Run ==
    /\ mainPc = "Run"
    /\ mainPc' = "app"
    /\ UNCHANGED <<isGitRepo, cfgAutoYes, autoYesFlag, deferLaunch, mainResult, fgPolling, daemon>>

\* The foreground control loop begins or ends a poll of the instances.
ForegroundPoll ==
    /\ mainPc = "app"
    /\ fgPolling' = ~fgPolling
    /\ UNCHANGED <<mainPc, isGitRepo, cfgAutoYes, autoYesFlag, deferLaunch, mainResult, daemon>>

\* app.Run returns (the operator quit, or the program failed).
AppRunReturns ==
    /\ mainPc = "app" /\ ~fgPolling
    /\ \E res \in {"ok", "err_app"} : mainResult' = res
    /\ mainPc' = "deferred"
    /\ UNCHANGED <<isGitRepo, cfgAutoYes, autoYesFlag, deferLaunch, fgPolling, daemon>>

\* daemon.LaunchDaemon(): starts a detached daemon process.
LaunchDaemon(ok) == IF ok /\ daemon = "off" THEN "sleeping" ELSE daemon

\* The deferred function of rootCmd.RunE: LaunchDaemon, an error is only logged.
RunE_Deferred ==
    /\ mainPc = "deferred"
    /\ IF deferLaunch
       THEN \E ok \in BOOLEAN : daemon' = LaunchDaemon(ok)
       ELSE UNCHANGED daemon
    /\ deferLaunch' = FALSE
    /\ mainPc' = "exited"
    /\ UNCHANGED <<isGitRepo, cfgAutoYes, autoYesFlag, mainResult, fgPolling>>

\* The foreground process is gone.
ProcessExit ==
    /\ mainPc = "exited"
    /\ mainPc' = "idle"
    /\ mainResult' = "none"
    /\ UNCHANGED <<isGitRepo, cfgAutoYes, autoYesFlag, deferLaunch, fgPolling, daemon>>

\* daemon.RunDaemon: the daemon loop begins or ends a poll of the instances.
DaemonPoll ==
    /\ daemon # "off"
    /\ daemon' = IF daemon = "sleeping" THEN "polling" ELSE "sleeping"
    /\ UNCHANGED <<mainPc, isGitRepo, cfgAutoYes, autoYesFlag, deferLaunch, mainResult, fgPolling>>

\* The paths AutoDetectConfiguration looks at, in its order; the first is the default.
TiltfilePaths == <<".agent-farmer/Tiltfile", "Tiltfile", "tilt/Tiltfile", ".tilt/Tiltfile">>

PathSet == {TiltfilePaths[k] : k \in DOMAIN TiltfilePaths}

\* No Tiltfile, the default configuration, no init run yet.
DevAtRest ==
    /\ tiltfiles = [p \in PathSet |-> "absent"]
    /\ tiltfilePath = TiltfilePaths[1]
    /\ initForce = FALSE
    /\ initResult = "none"

\* home.textInputOverlay is nil.
NoTextInput == [kind |-> "nil", text |-> FALSE, submitted |-> FALSE]

\* Nothing has been created or killed yet.
NoneMade == [placeholders |-> 0, generated |-> 0, kills |-> 0]

\* The list of the creation model is empty and no overlay is open.
NewAtRest ==
    /\ listItems = <<>>
    /\ homeAutoYes = FALSE
    /\ promptAfterName = FALSE
    /\ textInputOverlay = NoTextInput
    /\ made = NoneMade

\* No GenerateSessionName call is running.
GenAtRest ==
    /\ genPc = "idle"
    /\ genConfig = [anthropic |-> FALSE, openai |-> FALSE]
    /\ genPrompt = [ticket |-> <<>>, words |-> <<>>]
    /\ attempt = 0
    /\ genCalls = <<>>
    /\ genName = <<>>

\* No foreground process; a daemon may have been left by an earlier run.
MainAtRest ==
    /\ mainPc = "idle"
    /\ isGitRepo = TRUE
    /\ cfgAutoYes = FALSE
    /\ autoYesFlag = FALSE
    /\ deferLaunch = FALSE
    /\ mainResult = "none"
    /\ fgPolling = FALSE
    /\ daemon = "off"

\* ================================================== reset and the remote
\* config.DeleteAllRepoConfigs(): removes the files ~/.agent-farmer/repo-*.json
\* (a failed removal is only logged); the result is the legacy record left.
DeleteAllRepoConfigs(removeOk) == IF removeOk THEN "" ELSE legacyBranch

\* resetCmd.RunE with the program at rest: DeleteAllInstances, tmux
\* CleanupSessions, CleanupWorktrees and StopDaemon, each returning its error
\* (n: the steps that succeed); then, with --force, DeleteAllRepoConfigs.
Reset(force) ==
    /\ \A w \in Workers : pc[w] = "idle"
    /\ \E n \in 0..4 :
        /\ persisted' = IF n >= 1 THEN {} ELSE persisted
        /\ sessionAlive' = IF n >= 2 THEN [i \in Instances |-> FALSE] ELSE sessionAlive
        /\ worktreePresent' = IF n >= 3 THEN [i \in Instances |-> FALSE] ELSE worktreePresent
        /\ dirty' = IF n >= 3 THEN [w \in Workers |-> FALSE] ELSE dirty
        /\ tip' = IF n >= 3 THEN [w \in Workers |-> 0] ELSE tip
        /\ rebasing' = IF n >= 3 THEN [w \in Workers |-> FALSE] ELSE rebasing
        /\ daemon' = IF n >= 4 THEN StopDaemon(TRUE) ELSE daemon
        /\ IF n = 4 /\ force
           THEN /\ \E removeOk \in BOOLEAN :
                     /\ legacyBranch' = DeleteAllRepoConfigs(removeOk)
                     /\ lastReset' = IF removeOk THEN "force" ELSE "force_kept"
                /\ known' = NoneKnown
           ELSE /\ lastReset' = IF n = 4 THEN "plain" ELSE lastReset
                /\ UNCHANGED <<legacyBranch, known>>
    /\ UNCHANGED <<gitMutex, pc, op, openFlag, log, result, cachedBranch, remoteHead, devEnabled, defaultBranch,
                   start, inter>>
    /\ UNCHANGED <<uiState, items, selectedIdx, status, autoYes, content, prevContent, lastPoll,
                   checkedOutBranch, pendingAction, running, msgs, lastKill>>
    /\ UNCHANGED <<mainPc, isGitRepo, cfgAutoYes, autoYesFlag, deferLaunch, mainResult, fgPolling>>
    /\ UNCHANGED <<confirmationOverlay, loadingOverlay, pendingActionInfo, runningOps, quitConfirmed, quit, frame>>
    /\ UNCHANGED branch

\* The default branch of the remote is changed (what git remote show origin reports).
RemoteHeadMoves ==
    /\ \E b \in BranchNames \ {remoteHead} : remoteHead' = b
    /\ UNCHANGED <<gitMutex, pc, op, openFlag, log, result, dirty, tip, rebasing, cachedBranch, legacyBranch,
                   known, lastReset, devEnabled, defaultBranch, start, inter>>

\* The workspace-manager variables at rest.
GitAtRest ==
    /\ gitMutex = 0
    /\ pc = [w \in Workers |-> "idle"]
    /\ op = [w \in Workers |-> "none"]
    /\ openFlag = [w \in Workers |-> FALSE]
    /\ log = [w \in Workers |-> <<>>]
    /\ result = [w \in Workers |-> "none"]
    /\ dirty = [w \in Workers |-> FALSE]
    /\ tip = [w \in Workers |-> 0]
    /\ rebasing = [w \in Workers |-> FALSE]
    /\ cachedBranch = ""
    /\ legacyBranch = ""
    /\ remoteHead = "main"
    /\ defaultBranch = [w \in Workers |-> ""]
    /\ known = NoneKnown
    /\ lastReset = "none"
    /\ devEnabled = "nil"
    /\ start = [w \in Workers |-> [dirty |-> FALSE, tip |-> 0, rebasing |-> FALSE]]
    /\ inter = [w \in Workers |-> "no"]
    /\ repoPath = [w \in Workers |-> "A"]

\* The control-loop variables at rest.
AppAtRest ==
    /\ uiState = "default"
    /\ items = <<>>
    /\ selectedIdx = 0
    /\ status = [i \in Instances |-> "Paused"]
    /\ autoYes = [i \in Instances |-> FALSE]
    /\ content = [i \in Instances |-> 1]
    /\ prevContent = [i \in Instances |-> -1]
    /\ lastPoll = [i \in Instances |-> NoPoll]
    /\ persisted = {}
    /\ sessionAlive = [i \in Instances |-> FALSE]
    /\ worktreePresent = [i \in Instances |-> FALSE]
    /\ checkedOutBranch = 0
    /\ pendingAction = 0
    /\ running = {}
    /\ msgs = {}
    /\ lastKill = NoKill
    /\ confirmationOverlay = NoOverlay
    /\ loadingOverlay = "nil"
    /\ pendingActionInfo = NoInfo
    /\ runningOps = {}
    /\ quitConfirmed = FALSE
    /\ quit = FALSE
    /\ frame = 0
    /\ branch = [i \in Instances |-> 0]

NextPoll ==
    /\ UNCHANGED <<gitVars, mainVars, devVars, newVars, genVars>>
    /\ \/ Tick
       \/ \E i \in Instances : AgentOutput(i)

NextApp ==
    /\ UNCHANGED <<gitVars, mainVars, devVars, newVars, genVars>>
    /\ \/ Tick
       \/ \E b \in Instances \cup {0} : OperatorChecksOut(b)
       \/ KeyUp
       \/ KeyDown
       \/ KeyKill
       \/ ConfirmYes
       \/ ConfirmNo
       \/ \E t \in Instances : KillAction(t)
       \/ UpdateError
       \/ UpdateInstanceChanged

Init == InitGit /\ AppAtRest /\ MainAtRest /\ DevAtRest /\ NewAtRest /\ GenAtRest

SpecGit == Init /\ [][NextGit]_vars

InitPoll ==
    /\ GitAtRest
    /\ MainAtRest
    /\ DevAtRest
    /\ NewAtRest
    /\ GenAtRest
    /\ Loaded({"Running", "Ready", "Loading", "Paused"})

SpecPoll == InitPoll /\ [][NextPoll]_vars

InitApp ==
    /\ GitAtRest
    /\ MainAtRest
    /\ DevAtRest
    /\ NewAtRest
    /\ GenAtRest
    /\ Loaded({"Running", "Paused"})
    /\ autoYes = [i \in Instances |-> FALSE]

SpecApp == InitApp /\ [][NextApp]_vars

NextMain ==
    /\ UNCHANGED <<gitVars, appVars, devVars, newVars, genVars>>
    /\ \/ StartProgram
       \/ RunE_IsGitRepo
       \/ RunE_LoadConfig
       \/ RunE_StopDaemon
       \/ RunE_Run
       \/ ForegroundPoll
       \/ AppRunReturns
       \/ RunE_Deferred
       \/ ProcessExit
       \/ DaemonPoll

InitMain ==
    /\ GitAtRest
    /\ AppAtRest
    /\ DevAtRest
    /\ NewAtRest
    /\ GenAtRest
    /\ mainPc = "idle"
    /\ isGitRepo = TRUE
    /\ cfgAutoYes = FALSE
    /\ autoYesFlag = FALSE
    /\ deferLaunch = FALSE
    /\ mainResult = "none"
    /\ fgPolling = FALSE
    /\ daemon \in {"off", "sleeping"}

SpecMain == InitMain /\ [][NextMain]_vars

\* The push and rebase commands a confirmation can return.
Ops == [kind : {"push", "rebase"}, target : Instances]

\* The messages Update can be called with.
Messages == {"key", "tick", "error", "instanceChanged", "pushComplete", "rebaseComplete"}

NextUI ==
    /\ UNCHANGED <<gitVars, mainVars, devVars, newVars, genVars>>
    /\ \/ KeyUp
       \/ KeyDown
       \/ KeyKill
       \/ KeySubmit
       \/ KeyRebase
       \/ KeyQuit
       \/ ConfirmYes
       \/ ConfirmNo
       \/ \E t \in Instances : KillAction(t)
       \/ \E o \in Ops : OpAction(o)
       \/ \E m \in {"pushComplete", "rebaseComplete"} : UpdateComplete(m)
       \/ UpdateError
       \/ UpdateInstanceChanged
       \/ SpinnerTick
       \/ \E m \in Messages : UpdateQuitConfirmed(m)

InitUI ==
    /\ GitAtRest
    /\ MainAtRest
    /\ DevAtRest
    /\ NewAtRest
    /\ GenAtRest
    /\ Loaded({"Running"})
    /\ autoYes = [i \in Instances |-> FALSE]

SpecUI == InitUI /\ [][NextUI]_vars

\* The runtime runs every command it was handed to its end and delivers every
\* message to Update.
FairUI ==
    /\ WF_vars(UNCHANGED <<gitVars, mainVars, devVars, newVars, genVars>> /\ \E t \in Instances : KillAction(t))
    /\ WF_vars(UNCHANGED <<gitVars, mainVars, devVars, newVars, genVars>> /\ \E o \in Ops : OpAction(o))
    /\ WF_vars(UNCHANGED <<gitVars, mainVars, devVars, newVars, genVars>> /\ \E m \in {"pushComplete", "rebaseComplete"} : UpdateComplete(m))
    /\ WF_vars(UNCHANGED <<gitVars, mainVars, devVars, newVars, genVars>> /\ UpdateError)
    /\ WF_vars(UNCHANGED <<gitVars, mainVars, devVars, newVars, genVars>> /\ UpdateInstanceChanged)
    /\ WF_vars(UNCHANGED <<gitVars, mainVars, devVars, newVars, genVars>> /\ \E m \in Messages : UpdateQuitConfirmed(m))

SpecUILive == InitUI /\ [][NextUI]_vars /\ FairUI

NextConfig ==
    /\ UNCHANGED <<repoPath, devVars, newVars, genVars>>
    /\ \/ /\ UNCHANGED <<appVars, mainVars>>
          /\ \/ \E w \in Workers :
                   \/ CallRebaseOntoDefault(w)
                   \/ RebaseOntoDefault(w)
                   \/ Return(w)
             \/ RemoteHeadMoves
       \/ \E force \in BOOLEAN : Reset(force)

\* No operation is running; a legacy cache file may have been left by an
\* earlier version of the program.
InitConfig ==
    /\ AppAtRest
    /\ MainAtRest
    /\ DevAtRest
    /\ NewAtRest
    /\ GenAtRest
    /\ gitMutex = 0
    /\ pc = [w \in Workers |-> "idle"]
    /\ op = [w \in Workers |-> "none"]
    /\ openFlag = [w \in Workers |-> FALSE]
    /\ log = [w \in Workers |-> <<>>]
    /\ result = [w \in Workers |-> "none"]
    /\ dirty = [w \in Workers |-> FALSE]
    /\ tip = [w \in Workers |-> 0]
    /\ rebasing = [w \in Workers |-> FALSE]
    /\ cachedBranch = ""
    /\ legacyBranch \in {""} \cup BranchNames
    /\ remoteHead \in BranchNames
    /\ defaultBranch = [w \in Workers |-> ""]
    /\ known = NoneKnown
    /\ lastReset = "none"
    /\ devEnabled = "nil"
    /\ start = [w \in Workers |-> [dirty |-> FALSE, tip |-> 0, rebasing |-> FALSE]]
    /\ inter = [w \in Workers |-> "no"]
    /\ repoPath = [w \in Workers |-> "A"]

SpecConfig == InitConfig /\ [][NextConfig]_vars

\* Rebases requested on worktrees of the same or of different repositories.
NextRepos ==
    /\ UNCHANGED <<appVars, mainVars, devVars, newVars, genVars, repoPath>>
    /\ \E w \in Workers :
        \/ CallRebaseOntoDefault(w)
        \/ RebaseOntoDefault(w)
        \/ Return(w)
        \/ AgentWrites(w)
        \/ OperatorAbortsRebase(w)

\* Every repository has origin's default branch main, and its cache record,
\* if any, says so: one record stands for the equal records of the repositories.
InitRepos ==
    /\ AppAtRest
    /\ MainAtRest
    /\ DevAtRest
    /\ NewAtRest
    /\ GenAtRest
    /\ gitMutex = 0
    /\ pc = [w \in Workers |-> "idle"]
    /\ op = [w \in Workers |-> "none"]
    /\ openFlag = [w \in Workers |-> FALSE]
    /\ log = [w \in Workers |-> <<>>]
    /\ result = [w \in Workers |-> "none"]
    /\ dirty = [w \in Workers |-> FALSE]
    /\ tip = [w \in Workers |-> 0]
    /\ rebasing = [w \in Workers |-> FALSE]
    /\ cachedBranch = "main"
    /\ legacyBranch = ""
    /\ remoteHead = "main"
    /\ defaultBranch = [w \in Workers |-> ""]
    /\ known = NoneKnown
    /\ lastReset = "none"
    /\ devEnabled = "nil"
    /\ start = [w \in Workers |-> [dirty |-> FALSE, tip |-> 0, rebasing |-> FALSE]]
    /\ inter = [w \in Workers |-> "no"]
    /\ repoPath \in [Workers -> Repos]

SpecRepos == InitRepos /\ [][NextRepos]_vars

\* Every external command a RebaseOntoDefault started terminates, and
\* sync.Mutex hands the lock to a goroutine that keeps waiting for it
\* (starvation mode), however often other callers take it in between.
FairRepos ==
    \A w \in Workers :
        /\ WF_vars(UNCHANGED <<appVars, mainVars, devVars, newVars, genVars, repoPath>> /\
                     (\/ GetDefaultBranch(w)
                      \/ RebaseOntoDefault_IsDirty(w)
                      \/ RebaseOntoDefault_fetch(w)
                      \/ RebaseOntoDefault_revParse(w)
                      \/ RebaseOntoDefault_forkPoint(w)
                      \/ RebaseOntoDefault_mergeBase(w)
                      \/ RebaseOntoDefault_rebase(w)
                      \/ abortRebase(w)))
        /\ SF_vars(UNCHANGED <<appVars, mainVars, devVars, newVars, genVars, repoPath>> /\ RebaseOntoDefault_Lock(w))

SpecReposLive == InitRepos /\ [][NextRepos]_vars /\ FairRepos

\* ========================================================= pause and resume
\* Mutation: the pause forgets the branch.
BranchAfterPause_Dropped(b) == 0

\* Instance.Pause(): the branch reference is retained by name.
BranchAfterPause(b) == b

\* Instance.Pause(): local changes are committed to the branch before the
\* worktree is removed.
TipAfterPause(isDirty, t) == IF isDirty THEN t + 1 ELSE t

\* Instance.Pause() on instance i: commits the changes, tears down the terminal
\* session and the worktree, keeps the branch; on an instance that is already
\* paused, or when it fails, an error is returned and nothing has changed.
Pause(i, ok) ==
    IF Paused(i) \/ ~ok
    THEN UNCHANGED <<status, sessionAlive, worktreePresent, dirty, tip, branch>>
    ELSE /\ tip' = [tip EXCEPT ![branch[i]] = TipAfterPause(dirty[i], @)]
         /\ dirty' = [dirty EXCEPT ![i] = FALSE]
         /\ sessionAlive' = [sessionAlive EXCEPT ![i] = FALSE]
         /\ worktreePresent' = [worktreePresent EXCEPT ![i] = FALSE]
         /\ status' = [status EXCEPT ![i] = "Paused"]
         /\ branch' = [branch EXCEPT ![i] = BranchAfterPause(@)]

\* Instance.Resume() on instance i: recreates the worktree and the terminal
\* session bound to the retained branch; on an instance that is not paused, or
\* when it fails, an error is returned and nothing has changed.
Resume(i, ok) ==
    IF ~Paused(i) \/ branch[i] = 0 \/ ~ok
    THEN UNCHANGED <<status, sessionAlive, worktreePresent, dirty, tip, branch>>
    ELSE /\ worktreePresent' = [worktreePresent EXCEPT ![i] = TRUE]
         /\ sessionAlive' = [sessionAlive EXCEPT ![i] = TRUE]
         /\ status' = [status EXCEPT ![i] = "Running"]
         /\ UNCHANGED <<dirty, tip, branch>>

\* handleKeyPress, keys.KeyCheckout: the help screen is shown and the selected
\* instance is paused; an error goes to the error box.
KeyCheckout ==
    /\ GlobalKeymap
    /\ GetSelectedInstance # 0
    /\ \E ok \in BOOLEAN : Pause(GetSelectedInstance, ok)
    /\ UNCHANGED <<uiState, items, selectedIdx, autoYes, content, prevContent, lastPoll, persisted,
                   checkedOutBranch, pendingAction, running, msgs, lastKill, modalVars>>
    /\ UNCHANGED <<gitMutex, pc, op, openFlag, log, result, rebasing, cfgVars, defaultBranch, start, inter>>

\* handleKeyPress, keys.KeyResume: the selected instance is resumed; an error
\* goes to the error box.
KeyResume ==
    /\ GlobalKeymap
    /\ GetSelectedInstance # 0
    /\ \E ok \in BOOLEAN : Resume(GetSelectedInstance, ok)
    /\ UNCHANGED <<uiState, items, selectedIdx, autoYes, content, prevContent, lastPoll, persisted,
                   checkedOutBranch, pendingAction, running, msgs, lastKill, modalVars>>
    /\ UNCHANGED <<gitMutex, pc, op, openFlag, log, result, rebasing, cfgVars, defaultBranch, start, inter>>

\* The agent of a live session edits files in the instance's worktree.
AgentEdits(i) ==
    /\ sessionAlive[i] /\ worktreePresent[i] /\ tip[branch[i]] < MaxTip
    /\ AgentWrites(i)
    /\ UNCHANGED appVars

NextLife ==
    /\ UNCHANGED <<mainVars, devVars, newVars, genVars, repoPath>>
    /\ \/ UNCHANGED gitVars /\ Tick
       \/ UNCHANGED gitVars /\ \E i \in Instances : AgentOutput(i)
       \/ UNCHANGED gitVars /\ KeyUp
       \/ UNCHANGED gitVars /\ KeyDown
       \/ KeyCheckout
       \/ KeyResume
       \/ \E i \in Instances : AgentEdits(i)

InitLife ==
    /\ GitAtRest
    /\ MainAtRest
    /\ DevAtRest
    /\ NewAtRest
    /\ GenAtRest
    /\ Loaded({"Running", "Paused"})
    /\ autoYes = [i \in Instances |-> FALSE]

SpecLife == InitLife /\ [][NextLife]_vars

\* The operator moves the selection, checks instances out and resumes them
\* while the ticks go on and the agents draw.
NextTick ==
    /\ UNCHANGED <<mainVars, devVars, newVars, genVars, repoPath>>
    /\ \/ UNCHANGED gitVars /\ Tick
       \/ UNCHANGED gitVars /\ \E i \in Instances : AgentOutput(i)
       \/ UNCHANGED gitVars /\ KeyUp
       \/ UNCHANGED gitVars /\ KeyDown
       \/ KeyCheckout
       \/ KeyResume

\* newHome has loaded one or two instances, with or without the auto-accept
\* flag; an instance that is not in the list has not been started.
InitTick ==
    /\ GitAtRest
    /\ MainAtRest
    /\ DevAtRest
    /\ NewAtRest
    /\ GenAtRest
    /\ uiState = "default"
    /\ items \in {<<1, 2>>, <<1>>}
    /\ selectedIdx = 0
    /\ status \in [Instances -> {"Running", "Ready", "Paused"}]
    /\ \A i \in Instances : ~Started(i) => status[i] = "Running"
    /\ autoYes \in [Instances -> BOOLEAN]
    /\ content \in [Instances -> {0, 1}]
    /\ prevContent = [i \in Instances |-> -1]
    /\ lastPoll = [i \in Instances |-> NoPoll]
    /\ persisted = {i \in Instances : Started(i)}
    /\ sessionAlive = [i \in Instances |-> Started(i) /\ status[i] # "Paused"]
    /\ worktreePresent = [i \in Instances |-> Started(i) /\ status[i] # "Paused"]
    /\ checkedOutBranch = 0
    /\ pendingAction = 0
    /\ running = {}
    /\ msgs = {}
    /\ lastKill = NoKill
    /\ confirmationOverlay = NoOverlay
    /\ loadingOverlay = "nil"
    /\ pendingActionInfo = NoInfo
    /\ runningOps = {}
    /\ quitConfirmed = FALSE
    /\ quit = FALSE
    /\ frame = 0
    /\ branch = [i \in Instances |-> IF Started(i) THEN i ELSE 0]

SpecTick == InitTick /\ [][NextTick]_vars

\* ================================================================ restart
\* Mutation: the terminal session is created anew and shows the agent's first screen.
RestoreSession_Recreated(c) == 1

\* storage.LoadInstances for an instance that is not paused: the terminal
\* session that exists is attached again, with the screen it shows.
RestoreSession(c) == c

\* storage.LoadInstances: a paused instance is loaded without a terminal session.
LoadedSession(paused, alive) == ~paused /\ alive

\* The program is started again after it quit: newHome loads the persisted
\* instances into a new list (the instances are new objects: nothing has been
\* captured yet) and the control loop starts in stateDefault; with the
\* auto-accept mode every loaded instance gets the flag.
Startup ==
    /\ quit
    /\ quit' = FALSE
    /\ quitConfirmed' = FALSE
    /\ uiState' = "default"
    /\ items' = SelectSeq(items, LAMBDA i : i \in persisted)
    /\ selectedIdx' = 0
    /\ \E flag \in BOOLEAN : autoYes' = [i \in Instances |-> autoYes[i] \/ flag]
    /\ sessionAlive' = [i \in Instances |-> LoadedSession(Paused(i), sessionAlive[i])]
    /\ content' = [i \in Instances |-> IF i \in persisted /\ ~Paused(i) THEN RestoreSession(content[i]) ELSE content[i]]
    /\ prevContent' = [i \in Instances |-> -1]
    /\ lastPoll' = [i \in Instances |-> NoPoll]
    /\ pendingAction' = 0
    /\ pendingActionInfo' = NoInfo
    /\ confirmationOverlay' = NoOverlay
    /\ loadingOverlay' = "nil"
    /\ running' = {}
    /\ runningOps' = {}
    /\ msgs' = {}
    /\ frame' = 0
    /\ UNCHANGED <<status, persisted, worktreePresent, checkedOutBranch, lastKill, branch>>

NextRestart ==
    /\ UNCHANGED <<gitVars, mainVars, devVars, newVars, genVars>>
    /\ \/ Startup
       \/ Tick
       \/ \E i \in Instances : AgentOutput(i)
       \/ KeyQuit
       \/ ConfirmYes
       \/ ConfirmNo
       \/ \E m \in Messages : UpdateQuitConfirmed(m)

\* The program has quit after saving its instances; the terminal sessions of
\* the instances that are not paused are still there, showing some screen.
InitRestart ==
    /\ GitAtRest
    /\ MainAtRest
    /\ DevAtRest
    /\ NewAtRest
    /\ GenAtRest
    /\ uiState = "default"
    /\ items = <<1, 2>>
    /\ selectedIdx = 0
    /\ status \in [Instances -> {"Running", "Ready", "Loading", "Paused"}]
    /\ autoYes \in [Instances -> BOOLEAN]
    /\ content \in [Instances -> Screens]
    /\ prevContent = content
    /\ lastPoll = [i \in Instances |-> NoPoll]
    /\ persisted = Instances
    /\ sessionAlive = [i \in Instances |-> status[i] # "Paused"]
    /\ worktreePresent = [i \in Instances |-> status[i] # "Paused"]
    /\ checkedOutBranch = 0
    /\ pendingAction = 0
    /\ running = {}
    /\ msgs = {}
    /\ lastKill = NoKill
    /\ confirmationOverlay = NoOverlay
    /\ loadingOverlay = "nil"
    /\ pendingActionInfo = NoInfo
    /\ runningOps = {}
    /\ quitConfirmed = TRUE
    /\ quit = TRUE
    /\ frame = 0
    /\ branch = [i \in Instances |-> i]

SpecRestart == InitRestart /\ [][NextRestart]_vars

\* ===================================================== devenv enable, init
\* AutoDetectConfiguration: the first of the paths at which a Tiltfile
\* exists, else the default path.
AutoDetectTiltfile ==
    IF \E k \in DOMAIN TiltfilePaths : tiltfiles[TiltfilePaths[k]] # "absent"
    THEN TiltfilePaths[CHOOSE k \in DOMAIN TiltfilePaths :
                          /\ tiltfiles[TiltfilePaths[k]] # "absent"
                          /\ \A j \in 1..(k - 1) : tiltfiles[TiltfilePaths[j]] = "absent"]
    ELSE TiltfilePaths[1]

\* devenv enable: NewDevEnvironmentManager loads the record,
\* AutoDetectConfiguration saves it with the detected Tiltfile path and
\* Enable saves it with Enabled set; each save writes the record as loaded,
\* default branch included, and a failing step ends the command.
DevEnvEnable ==
    /\ \E loadOk \in BOOLEAN, saveOk \in BOOLEAN, enableOk \in BOOLEAN :
        /\ tiltfilePath' = IF loadOk /\ saveOk THEN AutoDetectTiltfile ELSE tiltfilePath
        /\ devEnabled' = IF ~(loadOk /\ saveOk) THEN devEnabled
                          ELSE IF enableOk THEN "on"
                          ELSE IF devEnabled = "nil" THEN "off" ELSE devEnabled
    /\ UNCHANGED <<tiltfiles, initForce, initResult>>

\* devenv disable: NewDevEnvironmentManager loads the record (a record without
\* a DevEnvironment section gets the default one) and Disable saves it with
\* Enabled cleared.
DevEnvDisable ==
    /\ \E loadOk \in BOOLEAN, saveOk \in BOOLEAN :
        /\ devEnabled' = IF loadOk /\ saveOk THEN "off" ELSE devEnabled
        /\ tiltfilePath' = IF loadOk /\ saveOk /\ devEnabled = "nil" THEN TiltfilePaths[1] ELSE tiltfilePath
    /\ UNCHANGED <<tiltfiles, initForce, initResult>>

\* NewDevEnvironmentManager: the Tiltfile path of the record's DevEnvironment
\* section, the default path when the record has none.
ConfiguredTiltfilePath == IF devEnabled = "nil" THEN TiltfilePaths[1] ELSE tiltfilePath

\* devenv init --force: the path of the file that is removed first.
ForceRemoves == TiltfilePaths[1]

\* devenv init [--force]: NewDevEnvironmentManager; with --force os.Remove of
\* <currentDir>/.agent-farmer/Tiltfile (a missing file is no error); then
\* CreateDefaultTiltfile, which refuses when a file exists at the configured
\* path and otherwise creates the directory and writes the file.
DevEnvInit(force) ==
    /\ initForce' = force
    /\ UNCHANGED <<tiltfilePath, devEnabled>>
    /\ \E loadOk \in BOOLEAN, removeOk \in BOOLEAN, writeOk \in BOOLEAN :
        LET removing == force /\ tiltfiles[ForceRemoves] # "absent"
            afterRemove == IF removing /\ removeOk THEN [tiltfiles EXCEPT ![ForceRemoves] = "absent"] ELSE tiltfiles
        IN  IF ~loadOk
            THEN initResult' = "err_init" /\ UNCHANGED tiltfiles
            ELSE IF removing /\ ~removeOk
            THEN initResult' = "err_remove" /\ UNCHANGED tiltfiles
            ELSE IF afterRemove[ConfiguredTiltfilePath] # "absent"
            THEN initResult' = "err_exists" /\ tiltfiles' = afterRemove
            ELSE IF ~writeOk
            THEN initResult' = "err_write" /\ tiltfiles' = afterRemove
            ELSE /\ initResult' = "ok"
                 /\ tiltfiles' = [afterRemove EXCEPT ![ConfiguredTiltfilePath] = "generated"]

\* The operator writes a Tiltfile of their own, or deletes one.
OperatorEditsTiltfile(p) ==
    /\ tiltfiles' = [tiltfiles EXCEPT ![p] = IF @ = "absent" THEN "user" ELSE "absent"]
    /\ UNCHANGED <<tiltfilePath, devEnabled, initForce, initResult>>

\* The workspace-manager variables the devenv commands never touch.
gitButDevEnabled == <<gitMutex, pc, op, openFlag, log, result, dirty, tip, rebasing, cachedBranch, legacyBranch,
                      remoteHead, known, lastReset, defaultBranch, start, inter, repoPath>>

NextDevenv ==
    /\ UNCHANGED <<gitButDevEnabled, appVars, mainVars, newVars, genVars>>
    /\ \/ DevEnvEnable
       \/ \E force \in BOOLEAN : DevEnvInit(force)
       \/ \E p \in PathSet : OperatorEditsTiltfile(p)

InitDevenv ==
    /\ GitAtRest
    /\ AppAtRest
    /\ MainAtRest
    /\ DevAtRest
    /\ NewAtRest
    /\ GenAtRest

SpecDevenv == InitDevenv /\ [][NextDevenv]_vars

\* ============================================ the repository record
\* devenv enable and disable between rebases: both write the repo-local
\* record <repo>/.agent-farmer/repo-config.json.
NextRecord ==
    /\ UNCHANGED <<appVars, mainVars, newVars, genVars>>
    /\ \/ /\ UNCHANGED <<devVars, repoPath>>
          /\ \E w \in Workers :
                \/ CallRebaseOntoDefault(w)
                \/ RebaseOntoDefault(w)
                \/ Return(w)
       \/ /\ UNCHANGED gitButDevEnabled
          /\ \/ DevEnvEnable
             \/ DevEnvDisable

\* No record yet, or one that caches the default branch; no legacy file.
InitRecord ==
    /\ AppAtRest
    /\ MainAtRest
    /\ DevAtRest
    /\ NewAtRest
    /\ GenAtRest
    /\ gitMutex = 0
    /\ pc = [w \in Workers |-> "idle"]
    /\ op = [w \in Workers |-> "none"]
    /\ openFlag = [w \in Workers |-> FALSE]
    /\ log = [w \in Workers |-> <<>>]
    /\ result = [w \in Workers |-> "none"]
    /\ dirty = [w \in Workers |-> FALSE]
    /\ tip = [w \in Workers |-> 0]
    /\ rebasing = [w \in Workers |-> FALSE]
    /\ cachedBranch \in {"", "main"}
    /\ legacyBranch = ""
    /\ remoteHead = "main"
    /\ defaultBranch = [w \in Workers |-> ""]
    /\ known = NoneKnown
    /\ lastReset = "none"
    /\ devEnabled = "nil"
    /\ start = [w \in Workers |-> [dirty |-> FALSE, tip |-> 0, rebasing |-> FALSE]]
    /\ inter = [w \in Workers |-> "no"]
    /\ repoPath = [w \in Workers |-> "A"]

SpecRecord == InitRecord /\ [][NextRecord]_vars

\* ========================================================= session names
\* Strings are sequences of characters; "a" stands for a letter, "1" for a
\* digit, "'" for a quote and "!" for any other character.
Rep(c, n) == [k \in 1..n |-> c]

\* NewNameGeneratorConfig: MaxRetries and MaxLength.
MaxRetries == 3

MaxLength == 32

IsAlnum(c) == c \in {"a", "1"}

\* [a-zA-Z0-9\-_]
IsNameChar(c) == c \in {"a", "1", "-", "_"}

\* The positions of str that hold a character outside cutset.
Outside(str, cutset) == {k \in 1..Len(str) : str[k] \notin cutset}

\* strings.TrimRight: up to the last character outside cutset.
TrimRight(str, cutset) ==
    LET keep == Outside(str, cutset)
    IN  IF keep = {} THEN <<>> ELSE SubSeq(str, 1, CHOOSE k \in keep : \A j \in keep : j <= k)

\* strings.Trim: from the first to the last character outside cutset.
Trim(str, cutset) ==
    LET keep == Outside(str, cutset)
    IN  IF keep = {} THEN <<>>
        ELSE SubSeq(str, CHOOSE k \in keep : \A j \in keep : k <= j, CHOOSE k \in keep : \A j \in keep : j <= k)

\* regexp -+ replaced by a single hyphen: a hyphen that follows a hyphen is dropped.
CollapseHyphens(str) ==
    LET keep == {k \in 1..Len(str) : ~(k > 1 /\ str[k] = "-" /\ str[k - 1] = "-")}
    IN  [i \in 1..Cardinality(keep) |-> str[CHOOSE k \in keep : Cardinality({j \in keep : j <= k}) = i]]

\* cleanSessionName: trim quotes and spaces, spaces to hyphens, drop every
\* character outside [a-zA-Z0-9-_], collapse hyphens, trim hyphens and
\* underscores.
cleanSessionName(name) ==
    LET trimmed == Trim(name, {"'", " "})
        hyphened == [k \in 1..Len(trimmed) |-> IF trimmed[k] = " " THEN "-" ELSE trimmed[k]]
    IN  Trim(CollapseHyphens(SelectSeq(hyphened, IsNameChar)), {"-", "_"})

\* A word of the prompt without its non-alphanumeric characters.
CleanWord(word) == SelectSeq(word.text, IsAlnum)

\* The word is kept as a keyword: longer than 2 and an action word or longer than 4.
IsKeyword(word) == Len(CleanWord(word)) > 2 /\ (word.action \/ Len(CleanWord(word)) > 4)

\* The first n keywords of the words.
RECURSIVE Keywords(_, _)
Keywords(words, n) ==
    IF n = 0 \/ words = <<>> THEN <<>>
    ELSE IF IsKeyword(Head(words)) THEN <<CleanWord(Head(words))>> \o Keywords(Tail(words), n - 1)
    ELSE Keywords(Tail(words), n)

\* strings.Join(parts, "-")
RECURSIVE JoinHyphen(_)
JoinHyphen(parts) ==
    IF parts = <<>> THEN <<>>
    ELSE IF Len(parts) = 1 THEN parts[1]
    ELSE parts[1] \o <<"-">> \o JoinHyphen(Tail(parts))

\* Mutation: the fallback name is not cut to MaxLength.
Truncate_Never(str) == str

\* cleanName[:MaxLength] and TrimRight "-" when the name is too long.
Truncate(str) == IF Len(str) > MaxLength THEN TrimRight(SubSeq(str, 1, MaxLength), {"-"}) ELSE str

\* generateFallbackName: <ticket>-<keywords>, <ticket>-task, the keywords, or
\* session-<stamp> (stamp: time.Now().Unix()%10000 in decimal), cleaned and
\* cut to MaxLength.
generateFallbackName(prompt, stamp) ==
    LET keywords == Keywords(prompt.words, 3)
        name == IF prompt.ticket # <<>>
                THEN IF keywords # <<>>
                     THEN prompt.ticket \o <<"-">> \o JoinHyphen(keywords)
                     ELSE prompt.ticket \o <<"-">> \o Rep("a", 4)
                ELSE IF keywords # <<>> THEN JoinHyphen(keywords)
                ELSE Rep("a", 7) \o <<"-">> \o stamp
    IN  Truncate(cleanSessionName(name))

\* The decimal forms of a number below 10000.
Stamps == {Rep("1", n) : n \in 1..4}

\* The names the rule-based generator can give the prompt.
FallbackNames(prompt) == {generateFallbackName(prompt, stamp) : stamp \in Stamps}

\* Answers of the API after strings.TrimSpace: a usable name, a quoted name
\* with spaces, nothing, only punctuation, only separators, a name of exactly
\* MaxLength characters and longer ones.
Answers ==
    {Rep("a", 8),
     <<"'", "a", "a", " ", " ", "a", "!", "'">>,
     <<>>,
     Rep("!", 3),
     <<"-", "_", "-">>,
     Rep("a", MaxLength),
     Rep("a", MaxLength + 1),
     Rep("a", MaxLength) \o <<" ", "a">>}

Word(text, action) == [text |-> text, action |-> action]

\* Prompts: no keyword at all; action words and short words; a ticket number
\* without keyword; a ticket number and words longer than MaxLength; three
\* long words and a fourth; a ticket number that starts with underscores; a
\* ticket number that is cut in the middle of its hyphens.
Prompts ==
    {[ticket |-> <<>>, words |-> <<>>],
     [ticket |-> <<>>, words |-> <<Word(Rep("a", 2), FALSE), Word(<<"a", "!">>, FALSE)>>],
     [ticket |-> <<>>, words |-> <<Word(Rep("a", 3), TRUE), Word(Rep("a", 3), FALSE), Word(Rep("a", 5), TRUE),
                                    Word(Rep("a", 4) \o <<"!">>, FALSE)>>],
     [ticket |-> <<"a", "-", "1">>, words |-> <<Word(Rep("a", 4), FALSE), Word(<<"a", "-", "1">>, FALSE)>>],
     [ticket |-> Rep("a", 39) \o <<"1">>,
      words |-> <<Word(Rep("a", 5), FALSE), Word(<<"!">> \o Rep("a", 39) \o <<"1">>, FALSE)>>],
     [ticket |-> <<>>, words |-> <<Word(Rep("a", 31), FALSE), Word(Rep("a", 31), FALSE), Word(Rep("a", 31), FALSE),
                                    Word(Rep("a", 31), FALSE)>>],
     [ticket |-> <<"_", "_", "1">>, words |-> <<Word(Rep("a", 3), TRUE), Word(<<"_", "_", "1">>, FALSE)>>],
     [ticket |-> Rep("a", 30) \o <<"-", "-", "-", "1">>, words |-> <<Word(Rep("a", 4), FALSE)>>]}

\* cleanSessionName of every answer, and the rule-based names of every prompt.
CleanAnswers == [answer \in Answers |-> cleanSessionName(answer)]

PromptFallbacks == [prompt \in Prompts |-> FallbackNames(prompt)]

\* Mutation: the loop goes on to the next attempt after an API error.
AfterAPIError_Retry == "loop"

\* An API error ends the loop: the rule-based name is returned at once.
AfterAPIError == "done"

\* GenerateSessionName up to the loop: a nil config becomes the default one;
\* without any API key the rule-based name is returned.
GenerateSessionName_Enter ==
    /\ genPc = "idle"
    /\ IF ~genConfig.anthropic /\ ~genConfig.openai
       THEN /\ genPc' = "done"
            /\ genName' \in PromptFallbacks[genPrompt]
       ELSE /\ genPc' = "loop"
            /\ UNCHANGED genName
    /\ attempt' = 0
    /\ UNCHANGED <<genConfig, genPrompt, genCalls>>

\* One evaluation of the loop condition and, if it holds, one iteration: one
\* API call (Anthropic when its key is set, else OpenAI); an error returns the
\* rule-based name; a cleaned answer of 1 to MaxLength characters is
\* returned; anything else leads to the next attempt.  After the loop the
\* rule-based name is returned.
GenerateSessionName_Attempt ==
    /\ genPc = "loop"
    /\ IF attempt < MaxRetries
       THEN \E apiOk \in BOOLEAN, answer \in Answers :
              LET cleanName == CleanAnswers[answer] IN
              /\ genCalls' = Append(genCalls, [api |-> IF genConfig.anthropic THEN "anthropic" ELSE "openai",
                                               ok |-> apiOk,
                                               usable |-> apiOk /\ Len(cleanName) <= MaxLength /\ Len(cleanName) > 0])
              /\ IF ~apiOk
                 THEN /\ genPc' = AfterAPIError
                      /\ genName' \in PromptFallbacks[genPrompt]
                      /\ attempt' = IF AfterAPIError = "loop" THEN attempt + 1 ELSE attempt
                 ELSE IF Len(cleanName) <= MaxLength /\ Len(cleanName) > 0
                 THEN /\ genPc' = "done"
                      /\ genName' = cleanName
                      /\ UNCHANGED attempt
                 ELSE /\ attempt' = attempt + 1
                      /\ UNCHANGED <<genPc, genName>>
       ELSE /\ genPc' = "done"
            /\ genName' \in PromptFallbacks[genPrompt]
            /\ UNCHANGED <<attempt, genCalls>>
    /\ UNCHANGED <<genConfig, genPrompt>>

NextName ==
    /\ UNCHANGED <<gitVars, appVars, mainVars, devVars, newVars>>
    /\ \/ GenerateSessionName_Enter
       \/ GenerateSessionName_Attempt

\* A call with any combination of API keys and any of the prompts.
InitName ==
    /\ GitAtRest
    /\ AppAtRest
    /\ MainAtRest
    /\ DevAtRest
    /\ NewAtRest
    /\ genPc = "idle"
    /\ genConfig \in [anthropic : BOOLEAN, openai : BOOLEAN]
    /\ genPrompt \in Prompts
    /\ attempt = 0
    /\ genCalls = <<>>
    /\ genName = <<>>

SpecName == InitName /\ [][NextName]_vars

\* The goroutine that called GenerateSessionName keeps running and every API
\* call returns (the HTTP client has a timeout of 30 seconds).
SpecNameLive == InitName /\ [][NextName]_vars /\ WF_vars(NextName)

\* ======================================================= instance creation
GlobalInstanceLimit == 10

\* Bounds of the creation model: the longest title the space key is followed
\* to, the most runes one key message carries, and how many placeholders,
\* generated instances and kill requests one behaviour has.
MaxTitle == 34

MaxRunes == 2

MaxPlaceholders == 1

MaxGenerated == 2

MaxKills == 1

\* How many instances newHome loads, and the length of their titles.
LoadedCounts == {9, 10}

LoadedTitle == 5

\* Lengths of the names GenerateSessionName returns (1..MaxLength).
GeneratedLengths == {1, MaxLength}

\* The variables of the control loop that instance creation leaves alone.
appRest == <<items, status, autoYes, content, prevContent, lastPoll, persisted, sessionAlive, worktreePresent,
             checkedOutBranch, lastKill, loadingOverlay, pendingActionInfo, runningOps, quitConfirmed, quit,
             frame, branch>>

\* session.NewInstance: not started, without the auto-accept flag.
NewInstance(title) == [started |-> FALSE, autoYes |-> FALSE, title |-> title]

\* list.NumInstances()
NumInstances == Len(listItems)

\* overlay.NewTextInputOverlay(title, ""): kind stands for the title.
NewTextInputOverlay(kind) == [kind |-> kind, text |-> FALSE, submitted |-> FALSE]

\* list.Kill() on the list of records: removes the instance selected now; the
\* selection moves up when the last item was removed.
KillListed ==
    IF Len(listItems) = 0
    THEN UNCHANGED <<listItems, selectedIdx>>
    ELSE /\ listItems' = [k \in 1..(Len(listItems) - 1) |->
                            IF k <= selectedIdx THEN listItems[k] ELSE listItems[k + 1]]
         /\ selectedIdx' = IF selectedIdx = Len(listItems) - 1 /\ selectedIdx > 0
                           THEN selectedIdx - 1 ELSE selectedIdx

\* Instance.SetTitle on the last instance of the list: an error, and no
\* change, once the instance is started.
SetTitle(title) ==
    IF listItems[Len(listItems)].started
    THEN listItems
    ELSE [listItems EXCEPT ![Len(listItems)].title = title]

\* handleKeyPress, keys.KeyPrompt: rejected at the instance limit; else a
\* placeholder without a title is added and selected and the state is stateNew.
KeyPrompt ==
    /\ GlobalKeymap /\ uiState = "default"
    /\ NumInstances >= GlobalInstanceLimit \/ made.placeholders < MaxPlaceholders
    /\ \E newOk \in BOOLEAN :
        IF NumInstances >= GlobalInstanceLimit \/ ~newOk
        THEN UNCHANGED <<uiState, listItems, selectedIdx, promptAfterName, made>>
        ELSE /\ listItems' = Append(listItems, NewInstance(0))
             /\ selectedIdx' = Len(listItems)
             /\ uiState' = "new"
             /\ promptAfterName' = TRUE
             /\ made' = [made EXCEPT !.placeholders = @ + 1]
    /\ UNCHANGED <<pendingAction, running, msgs, confirmationOverlay, appRest>>
    /\ UNCHANGED <<homeAutoYes, textInputOverlay>>

\* handleKeyPress, keys.KeyNew: rejected at the instance limit; else the
\* prompt for the name generation is opened.
KeyNew ==
    /\ GlobalKeymap /\ uiState = "default"
    /\ IF NumInstances >= GlobalInstanceLimit
       THEN UNCHANGED <<uiState, textInputOverlay>>
       ELSE /\ uiState' = "promptForName"
            /\ textInputOverlay' = NewTextInputOverlay("name")
    /\ UNCHANGED <<selectedIdx, pendingAction, running, msgs, confirmationOverlay, appRest>>
    /\ UNCHANGED <<listItems, homeAutoYes, promptAfterName, made>>

\* handleKeyPress in stateNew reaches the key: the handler indexes the last
\* instance of the list.
StateNewKey == ~quitConfirmed /\ uiState = "new" /\ Len(listItems) > 0

\* stateNew, ctrl+c: the selected instance is removed.
NewCtrlC ==
    /\ ~quitConfirmed /\ uiState = "new"
    /\ uiState' = "default"
    /\ promptAfterName' = FALSE
    /\ KillListed
    /\ UNCHANGED <<pendingAction, running, msgs, confirmationOverlay, appRest>>
    /\ UNCHANGED <<homeAutoYes, textInputOverlay, made>>

\* stateNew, enter: an empty title is an error; a failed Start removes the
\* selected instance; a failed SaveInstances returns with the instance started;
\* else the flag is set in auto-accept mode and the state is statePrompt with
\* a new overlay (promptAfterName) or stateDefault.
NewEnter ==
    /\ StateNewKey
    /\ LET n == Len(listItems) IN
       IF listItems[n].title = 0
       THEN UNCHANGED <<uiState, listItems, selectedIdx, promptAfterName, textInputOverlay>>
       ELSE \E startOk \in BOOLEAN, saveOk \in BOOLEAN :
            IF ~startOk
            THEN /\ KillListed
                 /\ uiState' = "default"
                 /\ UNCHANGED <<promptAfterName, textInputOverlay>>
            ELSE IF ~saveOk
            THEN /\ listItems' = [listItems EXCEPT ![n].started = TRUE]
                 /\ UNCHANGED <<uiState, selectedIdx, promptAfterName, textInputOverlay>>
            ELSE /\ listItems' = [listItems EXCEPT ![n].started = TRUE, ![n].autoYes = homeAutoYes \/ @]
                 /\ uiState' = IF promptAfterName THEN "prompt" ELSE "default"
                 /\ textInputOverlay' = IF promptAfterName THEN NewTextInputOverlay("prompt")
                                        ELSE textInputOverlay
                 /\ promptAfterName' = FALSE
                 /\ UNCHANGED selectedIdx
    /\ UNCHANGED <<pendingAction, running, msgs, confirmationOverlay, appRest>>
    /\ UNCHANGED <<homeAutoYes, made>>

\* stateNew, a key message with n runes: refused when the title has 32
\* characters or more; else the runes are appended.
NewRunes(n) ==
    /\ StateNewKey
    /\ listItems' = IF listItems[Len(listItems)].title >= 32
                    THEN listItems
                    ELSE SetTitle(listItems[Len(listItems)].title + n)
    /\ UNCHANGED <<uiState, selectedIdx, pendingAction, running, msgs, confirmationOverlay, appRest>>
    /\ UNCHANGED <<homeAutoYes, promptAfterName, textInputOverlay, made>>

\* stateNew, backspace: the last character is removed.
NewBackspace ==
    /\ StateNewKey
    /\ listItems' = IF listItems[Len(listItems)].title = 0
                    THEN listItems
                    ELSE SetTitle(listItems[Len(listItems)].title - 1)
    /\ UNCHANGED <<uiState, selectedIdx, pendingAction, running, msgs, confirmationOverlay, appRest>>
    /\ UNCHANGED <<homeAutoYes, promptAfterName, textInputOverlay, made>>

\* stateNew, space: a space is appended.
NewSpace ==
    /\ StateNewKey
    /\ listItems[Len(listItems)].title < MaxTitle
    /\ listItems' = SetTitle(listItems[Len(listItems)].title + 1)
    /\ UNCHANGED <<uiState, selectedIdx, pendingAction, running, msgs, confirmationOverlay, appRest>>
    /\ UNCHANGED <<homeAutoYes, promptAfterName, textInputOverlay, made>>

\* stateNew, esc: the selected instance is removed.
NewEsc ==
    /\ StateNewKey
    /\ KillListed
    /\ uiState' = "default"
    /\ UNCHANGED <<pendingAction, running, msgs, confirmationOverlay, appRest>>
    /\ UNCHANGED <<homeAutoYes, promptAfterName, textInputOverlay, made>>

\* statePrompt: the overlay handles the key; when it closes, a submitted
\* prompt is sent to the selected instance (an error leaves the state) and
\* the overlay is removed.
PromptKey ==
    /\ ~quitConfirmed /\ uiState = "prompt"
    /\ \E submitted \in BOOLEAN, sendOk \in BOOLEAN :
        IF submitted /\ ~sendOk
        THEN /\ textInputOverlay' = [textInputOverlay EXCEPT !.submitted = TRUE]
             /\ UNCHANGED uiState
        ELSE /\ textInputOverlay' = NoTextInput
             /\ uiState' = "default"
    /\ UNCHANGED <<selectedIdx, pendingAction, running, msgs, confirmationOverlay, appRest>>
    /\ UNCHANGED <<listItems, homeAutoYes, promptAfterName, made>>

\* statePromptForName: a key that edits the text of the overlay.
ForNameType ==
    /\ ~quitConfirmed /\ uiState = "promptForName"
    /\ textInputOverlay' = [textInputOverlay EXCEPT !.text = ~@]
    /\ UNCHANGED <<uiState, selectedIdx, pendingAction, running, msgs, confirmationOverlay, appRest>>
    /\ UNCHANGED <<listItems, homeAutoYes, promptAfterName, made>>

\* statePromptForName, the overlay closed as submitted: an empty prompt is an
\* error; else the name is generated, the instance created and started, added
\* to the list and selected; a failed SaveInstances returns here; else the
\* flag is set in auto-accept mode, the overlay removed, the state stateDefault.
ForNameSubmitted ==
    /\ \/ ~textInputOverlay.text
       \/ made.generated < MaxGenerated
    /\ IF ~textInputOverlay.text
       THEN UNCHANGED <<uiState, listItems, selectedIdx, made>>
            /\ textInputOverlay' = [textInputOverlay EXCEPT !.submitted = TRUE]
       ELSE \E name \in GeneratedLengths, newOk \in BOOLEAN, startOk \in BOOLEAN, saveOk \in BOOLEAN :
            IF ~newOk \/ ~startOk
            THEN /\ UNCHANGED <<uiState, listItems, selectedIdx, made>>
                 /\ textInputOverlay' = [textInputOverlay EXCEPT !.submitted = TRUE]
            ELSE /\ selectedIdx' = Len(listItems)
                 /\ made' = [made EXCEPT !.generated = @ + 1]
                 /\ IF ~saveOk
                    THEN /\ listItems' = Append(listItems, [NewInstance(name) EXCEPT !.started = TRUE])
                         /\ textInputOverlay' = [textInputOverlay EXCEPT !.submitted = TRUE]
                         /\ UNCHANGED uiState
                    ELSE /\ listItems' = Append(listItems,
                                [NewInstance(name) EXCEPT !.started = TRUE, !.autoYes = homeAutoYes])
                         /\ textInputOverlay' = NoTextInput
                         /\ uiState' = "default"

\* statePromptForName, the submit key.
ForNameSubmit ==
    /\ ~quitConfirmed /\ uiState = "promptForName"
    /\ ForNameSubmitted
    /\ UNCHANGED <<pendingAction, running, msgs, confirmationOverlay, appRest>>
    /\ UNCHANGED <<homeAutoYes, promptAfterName>>

\* statePromptForName, the cancel key: the overlay closes; IsSubmitted() is
\* false on an overlay that was never submitted, and either value on one that
\* was submitted before.
ForNameCancel ==
    /\ ~quitConfirmed /\ uiState = "promptForName"
    /\ \E isSubmitted \in (IF textInputOverlay.submitted THEN BOOLEAN ELSE {FALSE}) :
        IF isSubmitted
        THEN ForNameSubmitted
        ELSE /\ textInputOverlay' = NoTextInput
             /\ uiState' = "default"
             /\ UNCHANGED <<listItems, selectedIdx, made>>
    /\ UNCHANGED <<pendingAction, running, msgs, confirmationOverlay, appRest>>
    /\ UNCHANGED <<homeAutoYes, promptAfterName>>

\* handleKeyPress, keys.KeyKill on the list of records: the kill action for
\* the selected instance and the confirmation modal.
KeyKillListed ==
    /\ GlobalKeymap /\ uiState = "default"
    /\ Len(listItems) > 0
    /\ made.kills < MaxKills
    /\ uiState' = "confirm"
    /\ pendingAction' = selectedIdx + 1
    /\ confirmationOverlay' = NewConfirmationOverlay("kill")
    /\ made' = [made EXCEPT !.kills = @ + 1]
    /\ UNCHANGED <<selectedIdx, running, msgs, appRest>>
    /\ UNCHANGED <<listItems, homeAutoYes, promptAfterName, textInputOverlay>>

\* killAction, run by the runtime: an error (GetGitWorktree, a checked-out
\* branch, DeleteInstance) is returned as a message; else list.Kill() removes
\* the instance selected now and instanceChangedMsg is returned.
KillActionListed(t) ==
    /\ t \in running
    /\ running' = running \ {t}
    /\ \E ok \in BOOLEAN :
        IF ok
        THEN KillListed /\ msgs' = msgs \cup {"instanceChanged"}
        ELSE UNCHANGED <<listItems, selectedIdx>> /\ msgs' = msgs \cup {"error"}
    /\ UNCHANGED <<uiState, pendingAction, confirmationOverlay, appRest>>
    /\ UNCHANGED <<homeAutoYes, promptAfterName, textInputOverlay, made>>

NextNew ==
    /\ UNCHANGED <<gitVars, mainVars, devVars, genVars>>
    /\ \/ KeyPrompt
       \/ KeyNew
       \/ NewCtrlC
       \/ NewEnter
       \/ \E n \in 1..MaxRunes : NewRunes(n)
       \/ NewBackspace
       \/ NewSpace
       \/ NewEsc
       \/ PromptKey
       \/ ForNameType
       \/ ForNameSubmit
       \/ ForNameCancel
       \/ KeyKillListed
       \/ \E t \in 1..(GlobalInstanceLimit + MaxGenerated) : KillActionListed(t)
       \/ UNCHANGED newVars /\ ConfirmYes
       \/ UNCHANGED newVars /\ ConfirmNo
       \/ UNCHANGED newVars /\ UpdateError
       \/ UNCHANGED newVars /\ UpdateInstanceChanged

\* newHome has loaded the instances from storage, all started; in auto-accept
\* mode each has the flag, else each has the flag it was stored with.
InitNew ==
    /\ GitAtRest
    /\ MainAtRest
    /\ DevAtRest
    /\ GenAtRest
    /\ AppAtRest
    /\ homeAutoYes \in BOOLEAN
    /\ \E n \in LoadedCounts, stored \in BOOLEAN :
        listItems = [k \in 1..n |-> [started |-> TRUE, autoYes |-> homeAutoYes \/ stored, title |-> LoadedTitle]]
    /\ promptAfterName = FALSE
    /\ textInputOverlay = NoTextInput
    /\ made = NoneMade

SpecNew == InitNew /\ [][NextNew]_vars

\* ================================================================ claims
Last(l) == l[Len(l)]

PushCalls == {w \in Workers : op[w] = "push"}

RebaseCalls == {w \in Workers : op[w] = "rebase"}

\* Calls whose rebase step failed and that have returned.
FailedRebases == {w \in RebaseCalls : pc[w] = "done" /\ HasFailed(log[w], "rebase")}

\* C1: two concurrent mutating operations on the same repository never
\* interleave their git/gh invocations: no operation invokes a tool again
\* after another operation invoked one since its own first invocation.
C1_NoInterleaving == \A w \in Workers : inter[w] # "interleaved"

\* C2: RebaseOntoDefault on a dirty workspace returns an error, invokes no
\* fetch, merge-base, rebase or rebase --abort, and leaves the branch tip
\* where it was.
C2_DirtyRebaseRefused ==
    \A w \in RebaseCalls : start[w].dirty =>
        /\ \A i \in DOMAIN log[w] : log[w][i].cmd \notin MutatingCmds
        /\ tip[w] = start[w].tip
        /\ pc[w] = "done" => result[w] \notin {"ok", "none"}

C2_Witness ==
    \E w \in RebaseCalls : start[w].dirty /\ pc[w] = "done" /\ result[w] = "err_uncommitted"

\* C3: when the dirty-workspace precondition error is returned, the call has
\* neither queried the remote for the default branch nor written the
\* repository cache record.
C3_RefusedBeforeRemoteQuery ==
    \A w \in RebaseCalls : result[w] = "err_uncommitted" =>
        ~Has(log[w], "remote_show") /\ ~Has(log[w], "cache_write")

\* C4: whenever the rebase step failed, rebase --abort was invoked exactly
\* once, right after the failed rebase and as the last invocation before the
\* return, and the rebase error is returned even if the abort failed; the
\* abort is never invoked otherwise.
C4_AbortOnceBeforeError ==
    /\ \A w \in FailedRebases :
        /\ Count(log[w], "rebase_abort") = 1
        /\ Last(log[w]).cmd = "rebase_abort"
        /\ log[w][Len(log[w]) - 1] = Entry("rebase", FALSE)
        /\ result[w] = "err_rebase"
    /\ \A w \in Workers : Has(log[w], "rebase_abort") => HasFailed(log[w], "rebase")

C4_Witness ==
    \E w \in FailedRebases : HasFailed(log[w], "rebase_abort") /\ result[w] = "err_rebase"

\* C5 (as stated): after a call whose rebase step failed, the workspace is in
\* the state it had before the call: same tip, clean, no rebase in progress.
C5_FailedRebaseRestores ==
    \A w \in FailedRebases :
        /\ tip[w] = start[w].tip
        /\ dirty[w] = start[w].dirty
        /\ rebasing[w] = start[w].rebasing

\* C5 (amended): after a call whose rebase step failed the branch tip is
\* unchanged, and the workspace differs from its state before the call (not
\* clean, rebase in progress) only if rebase --abort itself failed.
C5_FailedRebaseRestoresUnlessAbortFails ==
    \A w \in FailedRebases :
        /\ tip[w] = start[w].tip
        /\ (dirty[w] # start[w].dirty \/ rebasing[w] # start[w].rebasing)
              => HasFailed(log[w], "rebase_abort")

C5_Witness ==
    \E w \in FailedRebases :
        /\ HasOk(log[w], "rebase_abort")
        /\ ~dirty[w] /\ ~rebasing[w] /\ tip[w] = start[w].tip

\* C7: PushChanges runs add and then commit exactly when the workspace is
\* dirty (a failed add stops before the commit); on a clean workspace it runs
\* neither, goes on to the publish steps and succeeds when the final sync
\* succeeds.
C7_CommitIffDirty ==
    \A w \in PushCalls :
        /\ Has(log[w], "add") => start[w].dirty /\ HasOk(log[w], "status")
        /\ Has(log[w], "commit") => HasOk(log[w], "add") /\ Pos(log[w], "add") + 1 = Pos(log[w], "commit")
        /\ (HasOk(log[w], "status") /\ start[w].dirty) => (pc[w] = "push_add" \/ Has(log[w], "add"))
        /\ HasOk(log[w], "add") => (pc[w] = "push_commit" \/ Has(log[w], "commit"))
        /\ Has(log[w], "sync_source") /\ start[w].dirty => HasOk(log[w], "commit")
        /\ (HasOk(log[w], "status") /\ ~start[w].dirty) =>
              /\ ~Has(log[w], "add") /\ ~Has(log[w], "commit")
              /\ tip[w] = start[w].tip
              /\ pc[w] = "push_sync_source" \/ Has(log[w], "sync_source")
              /\ (pc[w] = "done" /\ HasOk(log[w], "sync")) => result[w] = "ok"

\* A repeated push: the branch already has a commit, the workspace is clean,
\* nothing is committed and the call succeeds.
C7_Witness ==
    \E w \in PushCalls :
        /\ pc[w] = "done" /\ result[w] = "ok"
        /\ ~start[w].dirty /\ start[w].tip > 0
        /\ ~Has(log[w], "add") /\ ~Has(log[w], "commit") /\ HasOk(log[w], "sync")

\* C8: the first publish attempt is gh repo sync --source; git push runs only
\* after that sync failed (and always then); the final sync runs in every
\* call that got past the first attempt without failing; a failed git push
\* or a failed final sync is returned as an error.
C8_PublishOrder ==
    \A w \in PushCalls :
        /\ Count(log[w], "sync_source") <= 1 /\ Count(log[w], "git_push") <= 1 /\ Count(log[w], "sync") <= 1
        /\ Has(log[w], "git_push") =>
              HasFailed(log[w], "sync_source") /\ Pos(log[w], "sync_source") + 1 = Pos(log[w], "git_push")
        /\ HasFailed(log[w], "sync_source") => (pc[w] = "push_gitpush" \/ Has(log[w], "git_push"))
        /\ Has(log[w], "sync") =>
              /\ HasOk(log[w], "sync_source") \/ HasOk(log[w], "git_push")
              /\ Pos(log[w], "sync_source") < Pos(log[w], "sync")
              /\ Pos(log[w], "git_push") < Pos(log[w], "sync")
        /\ (HasOk(log[w], "sync_source") \/ HasOk(log[w], "git_push")) =>
              (pc[w] = "push_sync" \/ Has(log[w], "sync"))
        /\ HasFailed(log[w], "git_push") => pc[w] = "done" /\ result[w] = "err_push"
        /\ HasFailed(log[w], "sync") => pc[w] = "done" /\ result[w] = "err_sync"

C8_Witness ==
    \E w \in PushCalls :
        /\ pc[w] = "done" /\ result[w] = "ok"
        /\ HasFailed(log[w], "sync_source") /\ HasOk(log[w], "git_push") /\ HasOk(log[w], "sync")

\* The open step of a call: the second availability check or gh browse.
OpenAttempted(w) == Has(log[w], "browse") \/ Count(log[w], "gh_check") > 1

OpenFailed(w) == HasFailed(log[w], "browse") \/ (Count(log[w], "gh_check") > 1 /\ Last(log[w]) = Entry("gh_check", FALSE))

\* C9: a PushChanges whose final sync succeeded returns success whether or
\* not the open step failed; the open step is attempted only with open=true
\* and only after the final sync succeeded.
C9_OpenFailureNotPropagated ==
    \A w \in PushCalls :
        /\ OpenAttempted(w) =>
              /\ openFlag[w]
              /\ HasOk(log[w], "sync")
              /\ \A i \in DOMAIN log[w] : i > Pos(log[w], "sync") => log[w][i].cmd \in {"gh_check", "browse"}
        /\ (pc[w] = "done" /\ HasOk(log[w], "sync")) => result[w] = "ok"
        /\ (pc[w] = "done" /\ openFlag[w] /\ HasOk(log[w], "sync")) => OpenAttempted(w)

C9_Witness ==
    \E w \in PushCalls :
        /\ pc[w] = "done" /\ result[w] = "ok" /\ start[w].dirty
        /\ HasOk(log[w], "commit") /\ OpenFailed(w)

\* An instance is in the list.
InList(i) == \E k \in DOMAIN items : items[k] = i

\* C6: a confirmed kill of an instance whose branch is the one checked out in
\* the main repository changes nothing (list, persisted records, sessions,
\* worktrees); any other confirmed kill that meets no tool or storage error
\* removes the persisted record and the instance (with its session and
\* worktree).
C6_KillRefusedOrRemoves ==
    [][\A t \in Instances : (t \in running /\ t \notin running') =>
          IF checkedOutBranch = t
          THEN UNCHANGED <<items, selectedIdx, persisted, sessionAlive, worktreePresent, status>>
          ELSE lastKill'.outcome # "failed" =>
                  /\ t \notin persisted'
                  /\ ~InList(t)'
                  /\ ~sessionAlive'[t] /\ ~worktreePresent'[t]]_vars

\* C10: one metadata tick sets a started, non-paused instance to Running when
\* its captured content differs from the previous poll's, to Ready when the
\* content is unchanged and shows no prompt, and leaves the status alone when
\* the content is unchanged and shows a prompt.
C10_PollSetsStatus ==
    [][(status' # status \/ lastPoll' # lastPoll \/ prevContent' # prevContent) =>
          \A i \in Instances : (Started(i) /\ ~Paused(i)) =>
              /\ content[i] # prevContent[i] => status'[i] = "Running"
              /\ (content[i] = prevContent[i] /\ content[i] # 0) => status'[i] = "Ready"
              /\ (content[i] = prevContent[i] /\ content[i] = 0) => status'[i] = status[i]]_vars

\* One tick found one instance changed (now Running), another unchanged without
\* a prompt (now Ready).
C10_Witness ==
    \E i, j \in Instances :
        /\ lastPoll[i].polled /\ lastPoll[i].updated /\ status[i] = "Running"
        /\ lastPoll[j].polled /\ ~lastPoll[j].updated /\ ~lastPoll[j].prompt /\ status[j] = "Ready"

C13_UnchangedPollIdempotent ==
    [][\A i \in Instances :
          (lastPoll'[i] # lastPoll[i] /\ lastPoll'[i].polled /\ ~lastPoll'[i].updated /\ lastPoll'[i].again) =>
              status'[i] = status[i] /\ ~lastPoll'[i].tapped]_vars

\* C14: the foreground control loop and the daemon never poll at the same
\* time: while the foreground loop is running no daemon is running (it was
\* stopped before the loop started and is relaunched only after the loop exits).
C14_NoDoublePolling ==
    /\ mainPc = "app" => daemon = "off"
    /\ ~(fgPolling /\ daemon = "polling")

\* Worker w executes GetDefaultBranch in this step.
RanGetDefaultBranch(w) == pc[w] = "rb_GetDefaultBranch" /\ pc'[w] # "rb_GetDefaultBranch"

C16_ResetForceClearsCache ==
    [][/\ (lastReset' = "plain" /\ lastReset # "plain") => UNCHANGED <<cachedBranch, legacyBranch>>
       /\ \A w \in Workers : (RanGetDefaultBranch(w) /\ lastReset = "force") =>
             Has(log'[w], "remote_show")]_vars

\* A step in which Update handles a key press.
UpdateKeyMsg ==
    \/ KeyUp \/ KeyDown \/ KeyKill \/ KeySubmit \/ KeyRebase \/ KeyQuit
    \/ ConfirmYes \/ ConfirmNo
    \/ UpdateQuitConfirmed("key")

\* A step in which Update handles the completion or error message m.
UpdateMsg(m) ==
    \/ m = "error" /\ UpdateError
    \/ m # "error" /\ UpdateComplete(m)
    \/ UpdateQuitConfirmed(m)

\* A step that hands a new command to the runtime.
CommandReturned ==
    \/ \E t \in Instances : t \in running' /\ t \notin running
    \/ \E o \in Ops : o \in runningOps' /\ o \notin runningOps

\* C17: in the confirmation state, y, n and esc close the modal (the state is
\* no longer stateConfirm and confirmationOverlay is nil) whatever the pending
\* action is, and a pending action is executed only by y.
C17_ConfirmKeysCloseModal ==
    [][uiState = "confirm" =>
          /\ (ConfirmYes \/ ConfirmNo) => uiState' # "confirm" /\ confirmationOverlay' = NoOverlay
          /\ CommandReturned => ConfirmYes]_vars

\* C18: in stateLoading a key press changes nothing: state, loading overlay,
\* pending actions, instances and list stay as they are, no command is
\* returned and the program does not quit.
C18_KeysIgnoredWhileLoading ==
    [][(uiState = "loading" /\ UpdateKeyMsg) =>
          /\ UNCHANGED <<uiState, loadingOverlay, pendingAction, pendingActionInfo, items, selectedIdx, status,
                         persisted, sessionAlive, worktreePresent, quit>>
          /\ ~CommandReturned]_vars

\* C19: in stateLoading a push-complete, rebase-complete or error message
\* removes the loading overlay and puts the UI in stateDefault; a spinner
\* tick leaves the state and the overlay as they are.
C19_CompletionDismissesLoading ==
    [][uiState = "loading" =>
          /\ \A m \in {"pushComplete", "rebaseComplete", "error"} :
                UpdateMsg(m) => loadingOverlay' = "nil" /\ uiState' = "default"
          /\ (SpinnerTick \/ UpdateQuitConfirmed("tick")) => uiState' = "loading" /\ loadingOverlay' = "shown"]_vars

\* The loading overlay is there exactly in stateLoading.
LoadingOverlayIffLoading == (loadingOverlay # "nil") <=> (uiState = "loading")

\* The step that creates the loading overlay confirms a push or rebase modal.
LoadingOnlyAfterPushOrRebase ==
    (loadingOverlay = "nil" /\ loadingOverlay' # "nil") =>
        uiState = "confirm" /\ confirmationOverlay.kind \in {"push", "rebase"} /\ ConfirmYes

\* No key in a kill confirmation leads to stateLoading.
KillNeverLoads ==
    (uiState = "confirm" /\ confirmationOverlay.kind = "kill") => uiState' # "loading"

\* confirmActionWithLoading stores the action with needsLoading and no pendingAction.
ConfirmWithLoadingStores ==
    (KeySubmit \/ KeyRebase) =>
        /\ pendingActionInfo'.kind \in {"push", "rebase"} /\ pendingActionInfo'.needsLoading
        /\ pendingAction' = 0 /\ loadingOverlay' = "nil" /\ uiState' = "confirm"

\* C20: the loading overlay is created only by confirming a push or a rebase:
\* it is non-nil exactly in stateLoading, a kill confirmation never leads to
\* stateLoading, and a push or rebase key stores pendingActionInfo with
\* needsLoading and a nil pendingAction.
C20_LoadingOnlyAfterPushOrRebase ==
    [][/\ LoadingOverlayIffLoading /\ LoadingOverlayIffLoading'
       /\ LoadingOnlyAfterPushOrRebase
       /\ KillNeverLoads
       /\ ConfirmWithLoadingStores]_vars

\* The confirmation of a push or rebase hands the command to the runtime: the
\* command is pending after the step and has produced no message.
ConfirmOnlyReturnsCommand ==
    (ConfirmYes /\ pendingActionInfo # NoInfo) =>
        /\ [kind |-> pendingActionInfo.kind, target |-> pendingActionInfo.target] \in runningOps'
        /\ msgs' = msgs

\* C21: a confirmed push or rebase runs asynchronously: the Update step that
\* confirms it runs no git/gh invocation (the command is only handed to the
\* runtime), the UI is in stateLoading as long as the operation runs, and
\* unless the operation runs for ever the UI eventually returns to stateDefault.
C21_AsyncOperationWithLoading ==
    /\ [][ConfirmOnlyReturnsCommand]_vars
    /\ [](runningOps # {} => uiState = "loading")
    /\ \A o \in Ops : (o \in runningOps) ~> (uiState = "default" \/ [](o \in runningOps))

\* Worker w is inside RebaseOntoDefault and holds the lock.
InRebase(w) == op[w] = "rebase" /\ pc[w] \notin {"idle", "rb_lock", "done"}

\* Worker w waits in gitMutex.Lock() for the lock that worker v holds.
BlockedBy(w, v) == pc[w] = "rb_lock" /\ v # w /\ gitMutex = v

\* C22: a RebaseOntoDefault never waits for a RebaseOntoDefault that runs on a
\* worktree of another repository, and two of them on worktrees of the same
\* repository never run at the same time.
C22_LockPerRepository ==
    \A w, v \in Workers :
        /\ BlockedBy(w, v) => repoPath[w] = repoPath[v]
        /\ (w # v /\ repoPath[w] = repoPath[v]) => ~(InRebase(w) /\ InRebase(v))

\* The commits on the branch the instance is bound to (0 when it has none).
Committed(i) == IF branch[i] = 0 THEN 0 ELSE tip[branch[i]]

InitIOError == initResult' \in {"err_init", "err_remove", "err_write"}

\* C25: when a Tiltfile exists at the configured path, devenv init --force
\* replaces it by the generated one and succeeds (unless the file system
\* fails), and devenv init without --force fails and leaves every file as it
\* was.
C25_InitForceOverwrites ==
    [][\A force \in BOOLEAN : (DevEnvInit(force) /\ tiltfiles[tiltfilePath] # "absent") =>
          IF force
          THEN ~InitIOError => initResult' = "ok" /\ tiltfiles'[tiltfilePath] = "generated"
          ELSE initResult' # "ok" /\ tiltfiles' = tiltfiles]_vars

\* C26: a foreground command started outside a git repository returns the
\* error without stopping a running daemon, without launching a daemon and
\* without starting the UI loop: during such a run the daemon stays on or
\* off as it was, no launch is deferred and the run only ends with the error.
C26_OutsideRepoOnlyError ==
    [][(~isGitRepo /\ mainPc # "idle") =>
          /\ (daemon' = "off") <=> (daemon = "off")
          /\ mainPc' \in {"IsGitRepo", "exited", "idle"}
          /\ mainPc' = "exited" => mainResult' = "err_not_git_repo"
          /\ ~fgPolling' /\ ~deferLaunch']_vars

\* The command has returned the error and the daemon that was running is still running.
C26_Witness ==
    /\ ~isGitRepo /\ mainPc = "exited" /\ mainResult = "err_not_git_repo"
    /\ daemon # "off" /\ ~deferLaunch /\ (cfgAutoYes \/ autoYesFlag)

\* The invocations whose failure ends RebaseOntoDefault at once.
StoppingCmds == {"remote_show", "status", "fetch", "rev_parse", "merge_base"}

\* C27: in RebaseOntoDefault the plain merge-base is invoked exactly when the
\* fork-point computation failed; when both fail the call returns an error
\* and neither rebase nor rebase --abort is invoked; a failed default-branch
\* resolution, dirty check, fetch or current-branch query is the last
\* invocation of its call, which returns an error.
C27_MergeBaseFallbackAndEarlyStop ==
    \A w \in RebaseCalls :
        /\ Has(log[w], "merge_base") =>
              HasFailed(log[w], "merge_base_fork_point")
              /\ Pos(log[w], "merge_base_fork_point") + 1 = Pos(log[w], "merge_base")
        /\ HasFailed(log[w], "merge_base_fork_point") => (pc[w] = "rb_merge_base" \/ Has(log[w], "merge_base"))
        /\ HasOk(log[w], "merge_base_fork_point") => (pc[w] = "rb_rebase" \/ Has(log[w], "rebase"))
        /\ HasFailed(log[w], "merge_base") =>
              result[w] = "err_merge_base" /\ ~Has(log[w], "rebase") /\ ~Has(log[w], "rebase_abort")
        /\ \A c \in StoppingCmds : HasFailed(log[w], c) =>
              pc[w] = "done" /\ result[w] \notin {"ok", "none"} /\ Last(log[w]) = Entry(c, FALSE)
        /\ result[w] = "err_default_branch" => Last(log[w]).cmd = "remote_show"
        /\ result[w] \in {"err_status", "err_uncommitted"} => Last(log[w]).cmd = "status"
        /\ Has(log[w], "rebase") =>
              /\ HasOk(log[w], "fetch") /\ HasOk(log[w], "rev_parse")
              /\ HasOk(log[w], "merge_base_fork_point") \/ HasOk(log[w], "merge_base")

\* Both computations failed and the call returned without a rebase.
C27_Witness ==
    \E w \in RebaseCalls :
        /\ pc[w] = "done" /\ result[w] = "err_merge_base"
        /\ HasFailed(log[w], "merge_base_fork_point") /\ HasFailed(log[w], "merge_base")
        /\ ~Has(log[w], "rebase") /\ ~Has(log[w], "rebase_abort")

\* C28: a kill that deletes the persisted record of instance t removes
\* instance t, and no other instance, from the list, whatever keys were handled
\* between its confirmation and its execution.
C28_KillRemovesCapturedInstance ==
    [][\A t \in Instances : (t \in running /\ t \notin running' /\ lastKill'.outcome = "killed") =>
          /\ t \notin persisted'
          /\ ~InList(t)'
          /\ \A u \in Instances \ {t} : InList(u) => InList(u)']_vars

\* C29: a push, rebase or kill command is handed to the runtime only by the
\* confirmation of its own modal, never by the confirmation of another modal
\* such as the quit modal; whenever the UI leaves stateConfirm, pendingAction
\* and pendingActionInfo are both nil.
C29_ActionRunsOncePerConfirmation ==
    [][/\ (uiState = "confirm" /\ uiState' # "confirm") =>
             pendingAction' = 0 /\ pendingActionInfo' = NoInfo
       /\ \A o \in Ops : (ConfirmYes /\ o \in runningOps' /\ pendingActionInfo # NoInfo) =>
             confirmationOverlay.kind = pendingActionInfo.kind
       /\ \A o \in Ops : (o \notin runningOps /\ o \in runningOps') =>
             ConfirmYes /\ confirmationOverlay.kind = o.kind
       /\ \A t \in Instances : (t \notin running /\ t \in running') =>
             ConfirmYes /\ confirmationOverlay.kind = "kill"]_vars

\* C30: quitConfirmed is set only by y on the quit modal and stays set; the
\* program quits only in an Update step taken with quitConfirmed set in which
\* SaveInstances stored the list; while the quit is confirmed and the program
\* has not quit, every message Update receives goes through the save of the
\* quit prelude, which either quits or leaves the storage as it was.
C30_QuitOnlyAfterConfirmedQuitAndSave ==
    [][/\ (~quitConfirmed /\ quitConfirmed') => ConfirmYes /\ confirmationOverlay.kind = "quit"
       /\ quitConfirmed => quitConfirmed'
       /\ (~quit /\ quit') =>
             /\ quitConfirmed
             /\ \E m \in Messages : UpdateQuitConfirmed(m)
             /\ persisted' = {items[k] : k \in DOMAIN items}
       /\ (quitConfirmed /\ ~quit) =>
             \/ \E m \in Messages : UpdateQuitConfirmed(m) /\ (quit' \/ persisted' = persisted)
             \/ \E t \in Instances : KillAction(t)
             \/ \E o \in Ops : OpAction(o)]_vars

\* The program has quit on a confirmed quit with the list stored.
C30_Witness ==
    /\ quit /\ quitConfirmed
    /\ uiState = "default" /\ confirmationOverlay = NoOverlay
    /\ persisted = {items[k] : k \in DOMAIN items}

\* Worker w holds the lock exactly while it is between gitMutex.Lock() and the
\* return of RebaseOntoDefault.
LockHeldThroughout ==
    \A w \in Workers : (gitMutex = w) <=> InRebase(w)

\* Every invocation a RebaseOntoDefault makes is made with the lock held, and
\* while one RebaseOntoDefault is between its failed rebase and the abort no
\* other RebaseOntoDefault invokes anything.
NoRebaseCommandBeforeAbort ==
    \A w \in Workers :
        /\ (op[w] = "rebase" /\ log'[w] # log[w] /\ pc[w] # "done") => gitMutex = w
        /\ pc[w] = "rb_abort" => \A v \in Workers \ {w} : log'[v] = log[v] \/ pc[v] = "done"

\* C31: the lock is held by a RebaseOntoDefault from before its first
\* invocation until its return, on every return path and through the rebase
\* --abort after a failed rebase; no other RebaseOntoDefault invokes a command
\* in between; a RebaseOntoDefault waiting for the lock eventually gets it.
C31_LockHeldThroughAbort ==
    /\ []LockHeldThroughout
    /\ [][NoRebaseCommandBeforeAbort]_vars
    /\ \A w \in Workers : (pc[w] = "rb_lock") ~> (gitMutex = w)

\* A rebase has failed and its abort is about to run under the lock while the
\* other caller waits for it.
C31_Witness ==
    \E w \in Workers, v \in Workers :
        /\ pc[w] = "rb_abort" /\ HasFailed(log[w], "rebase") /\ gitMutex = w
        /\ BlockedBy(v, w)

\* C37: a GetDefaultBranch call, cache miss included, leaves the
\* development-environment section of the repository record as it was.
C37_DefaultBranchKeepsDevEnv ==
    [][\A w \in Workers : GetDefaultBranch(w) => devEnabled' = devEnabled]_vars

\* The LoadRepoConfig of the GetDefaultBranch step of worker w read without an error.
LoadSucceeded(w) ==
    LET e == log'[w][Len(log[w]) + 1] IN e.cmd = "cache_read" /\ e.ok

\* C38: a LoadRepoConfig that finds no repo-local record but a legacy record
\* returns the legacy default branch and attempts to write it to the
\* repo-local file; the legacy file is removed only if that write succeeded;
\* the next LoadRepoConfig returns the same default branch; with no record at
\* either location it returns none and the remote is asked.
C38_LegacyMigration ==
    [][\A w \in Workers : (GetDefaultBranch(w) /\ LoadSucceeded(w) /\ ~RecordExists) =>
          IF legacyBranch # ""
          THEN /\ defaultBranch'[w] = legacyBranch
               /\ log'[w][Len(log[w]) + 2].cmd = "cache_write"
               /\ cachedBranch' = IF log'[w][Len(log[w]) + 2].ok THEN legacyBranch ELSE ""
               /\ legacyBranch' \in {"", legacyBranch}
               /\ legacyBranch' = "" => cachedBranch' = legacyBranch
               /\ LoadRepoConfig' = LoadRepoConfig
               /\ ~Has(log'[w], "remote_show")
          ELSE /\ log'[w][Len(log[w]) + 2].cmd = "remote_show"
               /\ legacyBranch' = ""]_vars

\* A call got its default branch from the legacy record, which is now in the
\* repo-local file, and the legacy file is gone.
C38_Witness ==
    \E w \in Workers :
        /\ HasOk(log[w], "cache_read") /\ HasOk(log[w], "cache_write") /\ ~Has(log[w], "remote_show")
        /\ defaultBranch[w] # "" /\ cachedBranch = defaultBranch[w] /\ legacyBranch = ""

\* Every call in the log but the last returned a valid response.
NoRetryAfterError == \A k \in 1..(Len(genCalls) - 1) : genCalls[k].ok

\* The call returned the rule-based name after an API error or after
\* MaxRetries unusable answers.
FellBack ==
    /\ genCalls # <<>>
    /\ \/ ~genCalls[Len(genCalls)].ok
       \/ Len(genCalls) = MaxRetries /\ ~genCalls[Len(genCalls)].usable

\* C39: GenerateSessionName ends, with a name of 1 to 32 characters; it
\* makes at most MaxRetries API calls, none after an API error and none
\* without an API key, and returns the rule-based name after an error and
\* after MaxRetries unusable answers.
C39_NameGeneratorTerminates ==
    /\ <>(genPc = "done")
    /\ [](/\ Len(genCalls) <= MaxRetries
          /\ NoRetryAfterError
          /\ \A k \in 1..(Len(genCalls) - 1) : ~genCalls[k].usable
          /\ (~genConfig.anthropic /\ ~genConfig.openai) => genCalls = <<>>
          /\ genPc = "done" =>
                /\ Len(genName) >= 1 /\ Len(genName) <= MaxLength
                /\ FellBack => genName \in PromptFallbacks[genPrompt]
                /\ (genCalls # <<>> /\ ~FellBack) => genCalls[Len(genCalls)].usable)

\* MaxRetries unusable answers were followed by the rule-based name, cut to MaxLength.
C39_Witness ==
    /\ genPc = "done"
    /\ Len(genCalls) = MaxRetries /\ \A k \in 1..MaxRetries : genCalls[k].ok /\ ~genCalls[k].usable
    /\ genName \in PromptFallbacks[genPrompt] /\ Len(genName) = MaxLength

\* C35: a metadata tick leaves every instance that is paused or not started
\* alone: its status is unchanged, it is not polled (no capture, no diff
\* statistics) and no keystroke is sent to it; a Paused instance leaves Paused
\* only by the resume key on it.
C35_TickSkipsPausedAndUnstarted ==
    [][/\ Tick => \A i \in Instances : (~Started(i) \/ Paused(i)) =>
             /\ status'[i] = status[i]
             /\ ~lastPoll'[i].polled /\ ~lastPoll'[i].tapped
             /\ prevContent'[i] = prevContent[i]
       /\ \A i \in Instances : (Paused(i) /\ ~Paused(i)') =>
             KeyResume /\ GetSelectedInstance = i]_vars

\* Two ticks in a row polled one instance and skipped the paused one, which
\* has the auto-accept flag and shows a prompt.
C35_Witness ==
    \E i, j \in Instances :
        /\ Started(i) /\ Paused(i) /\ autoYes[i] /\ content[i] = 0
        /\ ~lastPoll[i].polled /\ prevContent[i] = -1
        /\ lastPoll[j].polled /\ lastPoll[j].again

\* C32: an instance of the list that is not started exists only while the UI
\* is in stateNew: every way of leaving stateNew starts the placeholder or
\* removes it.
C32_PlaceholderOnlyInStateNew ==
    \A k \in DOMAIN listItems : ~listItems[k].started => uiState = "new"

\* C33: no title in the list is longer than 32 characters, whatever rune,
\* space and backspace keys are pressed in stateNew, and every started
\* instance has a non-empty title.
C33_TitleAtMost32 ==
    \A k \in DOMAIN listItems :
        /\ listItems[k].title <= 32
        /\ listItems[k].started => listItems[k].title >= 1

\* C34: the list never holds more than GlobalInstanceLimit instances, and a
\* creation key pressed when it holds that many changes neither the state
\* nor the list.
C34_AtMostTenInstances ==
    /\ [](NumInstances <= GlobalInstanceLimit)
    /\ [][((KeyPrompt \/ KeyNew) /\ NumInstances >= GlobalInstanceLimit) =>
             UNCHANGED <<uiState, listItems>>]_vars

\* C36: in auto-accept mode every started instance of the list has the flag
\* whenever the UI is in stateDefault; without the mode no step of the UI
\* sets the flag on an instance.
C36_AutoYesOnEveryStarted ==
    /\ []((homeAutoYes /\ uiState = "default") =>
             \A k \in DOMAIN listItems : listItems[k].started => listItems[k].autoYes)
    /\ [][~homeAutoYes =>
             Cardinality({k \in DOMAIN listItems' : listItems'[k].autoYes})
                 <= Cardinality({k \in DOMAIN listItems : listItems[k].autoYes})]_vars


====
